---- MODULE Spec2Model ----
(***************************************************************************)
(* Model of the ecommerce-bot connection pool (client/client_pool.py) and  *)
(* of the Redis session store (services/redis/redis_service_enhanced.py).  *)
(*                                                                         *)
(* Coroutines run on one asyncio event loop: a step of the model is the    *)
(* code a coroutine runs between two suspension points (an await that      *)
(* really suspends: waiting for the asyncio.Lock, a backend connect or     *)
(* disconnect, the body of a context manager, a Redis round trip).         *)
(*                                                                         *)
(* Pool part: Spec.  Session store: UpdateSpec and CreateSpec.             *)
(***************************************************************************)
EXTENDS Naturals, Integers, Sequences, FiniteSets, TLC

\* ------------------------------------------------------------------ bounds
\* pool_size given to ClientPool(pool_size=...) in the runs explored.
PoolSize == 2
\* number of initialize / get_connection / acquire calls issued in a run.
MaxCalls == 4

\* number of create_session / update_session calls issued in a run.
MaxSessionCalls == 3
\* number of Redis commands that fail (ConnectionError, TimeoutError) in a run.
MaxFaults == 1
\* Seconds of the clock explored by the circuit breaker runs.
MaxTime == 7
\* number of inbound messages of the one phone number in a run.
MaxMessages == 2

Tasks == {1, 2, 3}
\* the callers known to the pool, and those that call it in the runs of Spec
Callers == {"u1", "u2", "u3"}
Users == {"u1", "u2"}
NoTask == 0
NoUser == "none"
\* a connection id f"conn_{user_id}_{ms}" / f"temp_{user_id}_{ms}" is the
\* triple <<prefix, user_id, ms>>; NoConn stands for Python's None.
NoConn == <<"none", "none", 0>>

VARIABLES
    pool_size,              \* ClientPool.pool_size
    conn,                   \* the ClientConnection objects ever built, by connection_id
    all_connections,        \* keys of ClientPool.all_connections
    available_connections,  \* ClientPool.available_connections (deque)
    user_connections,       \* ClientPool.user_connections (NoConn: key absent)
    stats,                  \* ClientPool.stats
    lock_holder,            \* ClientPool._lock: the task holding it
    lock_waiters,           \* ClientPool._lock: FIFO of tasks awaiting it
    pc,                     \* where each task's coroutine is suspended
    user_id,                \* the user_id argument of the task's current call
    connection,             \* get_connection's local variable `connection`
    yielded,                \* what the current scope yielded / acquire returned
    awaiting,               \* task whose nested scope the body of this task awaits
    leased,                 \* clients returned by acquire() and not yet released
    outcome,                \* how the body of the task's scope ended
    init_i,                 \* initialize's loop index
    last_exit,              \* history: the connection of the scope the user exited last
    expect,                 \* history: last_exit of the caller when the call was issued
    disconnected,           \* history: clients whose disconnect() was called
    issued                  \* history: calls issued so far (gets: of get_connection), callers named

poolVars == <<pool_size, conn, all_connections, available_connections, user_connections,
              stats, lock_holder, lock_waiters, pc, user_id, connection,
              yielded, awaiting, leased, outcome, init_i, last_exit, expect,
              disconnected, issued>>

VARIABLES
    redis_session,          \* primary node: value of the key session:{user_id} (<<>>: no key)
    replica_session,        \* a further node of self.clients: its copy of the key
    redis_lock,             \* primary node: value of lock:session_create_{user_id}
    lock_writer,            \* history: the call whose SET NX wrote the value of redis_lock
    active_sessions,        \* primary node: the set active_sessions
    spc,                    \* where each task's session-store call is suspended
    updates,                \* update_session's argument `updates` / create_session's initial_data
    attempt,                \* update_session's loop variable `attempt`
    retry,                  \* with_retry's loop variable `attempt` around the call
    current_version,        \* update_session's local `current_version`
    session_data,           \* the local `session_data` (<<>>: None)
    lock_value,             \* distributed_lock's local `lock_value`
    ret,                    \* history: how the task's last session-store call ended
    rival,                  \* history: the task whose create_session overlapped this one
    commit_log,             \* history: the writes committed by update_session's script
    persisted,              \* history: number of sessions create_session has stored
    built,                  \* history: number of default sessions built
    faults,                 \* history: Redis commands that failed so far
    session_calls           \* history: session-store calls issued so far

sessVars == <<redis_session, replica_session, redis_lock, lock_writer, active_sessions, spc,
              updates, attempt, retry, current_version, session_data, lock_value,
              ret, rival, commit_log, persisted, built, faults, session_calls>>

\* the CircuitBreaker (state, failure_count, last_failure_time) and the clock
\* its datetime.utcnow() reads, in seconds
VARIABLES circuit_breaker, now

cbVars == <<circuit_breaker, now>>

\* the webhook: the value stored under the key session:<from_number>, the
\* position of each process_message task, its message, its local `session`,
\* the `session_context` of the MCP client it runs, the get_connection lock
\* its scope holds, and the messages received and answered so far
VARIABLES kv_session, wh_pc, message, session, session_context,
          scope_holder, scope_waiters, received, answered

whVars == <<kv_session, wh_pc, message, session, session_context,
            scope_holder, scope_waiters, received, answered>>

vars == <<poolVars, sessVars, cbVars, whVars>>

\* what no call of the session store changes
outside == <<poolVars, cbVars, whVars>>

\* ------------------------------------------------------- ClientConnection
\* lines 17-24 (the timestamps and use_count, which nothing reads, are left out);
\* client_user is connection.client.user_id
NewConnection == [is_busy |-> FALSE, current_user |-> NoUser, client_user |-> NoUser]

mark_used(c, u) == [c EXCEPT !.is_busy = TRUE, !.current_user = u]

\* faulty variant of mark_released: line 35 is lost, the connection stays busy
mark_released_KeepsBusy(c) == [c EXCEPT !.current_user = NoUser]

mark_released(c) == [c EXCEPT !.is_busy = FALSE, !.current_user = NoUser]

NoYield == [id |-> NoConn, was_reused |-> FALSE, after_exit |-> FALSE]

\* history of scope exits: `sole` records that the caller had no other call in
\* progress and no acquire() lease at the exit, and has acquired nothing since;
\* `raised` that the body of the scope ended by an exception
NoExit == [id |-> NoConn, sole |-> FALSE, raised |-> FALSE]

InSeq(x, s) == \E i \in 1..Len(s) : s[i] = x

RECURSIVE RemoveFirst(_, _)
\* deque.remove(x): removes the first occurrence
RemoveFirst(s, x) ==
    IF s = <<>> THEN <<>>
    ELSE IF Head(s) = x THEN Tail(s)
    ELSE <<Head(s)>> \o RemoveFirst(Tail(s), x)

\* ------------------------------------------------------------ asyncio.Lock
\* acquire() returns at once only when the lock is unlocked and nobody waits.
LockFree == lock_holder = NoTask /\ lock_waiters = <<>>

\* a suspended acquire() resumes when the lock is unlocked and it is first in line
CanResume(t) == lock_holder = NoTask /\ lock_waiters # <<>> /\ Head(lock_waiters) = t

\* where a coroutine waits for the lock, and where it holds it
Waiting == {"gc_wait", "rel_wait", "acq_wait", "lrel_wait", "init_wait", "close_wait"}
Holding == {"body", "gc_creating", "gc_temp_connecting", "temp_disconnecting",
            "acq_creating", "init_creating",
            "closing"}

TypeOK ==
    /\ all_connections \subseteq DOMAIN conn
    /\ lock_holder \in Tasks \cup {NoTask}
    /\ \A t \in Tasks :
          /\ pc[t] \in Waiting \cup Holding \cup {"idle"}
          /\ InSeq(t, lock_waiters) <=> pc[t] \in Waiting
          /\ lock_holder = t <=> pc[t] \in Holding
          /\ pc[t] # "idle" => \A o \in Tasks : o < t => pc[o] # "idle"

\* ClientPool(pool_size=size)
Constructed(size) ==
    /\ pool_size = size
    /\ conn = <<>>
    /\ all_connections = {}
    /\ available_connections = <<>>
    /\ user_connections = [u \in Callers |-> NoConn]
    /\ stats = [connections_created |-> 0, connections_reused |-> 0,
                total_requests |-> 0, pool_exhausted_count |-> 0]
    /\ lock_holder = NoTask
    /\ lock_waiters = <<>>
    /\ pc = [t \in Tasks |-> "idle"]
    /\ user_id = [t \in Tasks |-> NoUser]
    /\ connection = [t \in Tasks |-> NoConn]
    /\ yielded = [t \in Tasks |-> NoYield]
    /\ awaiting = [t \in Tasks |-> NoTask]
    /\ leased = {}
    /\ outcome = [t \in Tasks |-> "none"]
    /\ init_i = [t \in Tasks |-> 0]
    /\ last_exit = [u \in Callers |-> NoExit]
    /\ expect = [t \in Tasks |-> NoExit]
    /\ disconnected = {}
    /\ issued = [calls |-> 0, gets |-> 0, named |-> {}]

PoolInit == Constructed(PoolSize)


\* ------------------------------------------------------------- helpers
\* line 83: f"conn_{user_id}_{int(time.time() * 1000)}".  Every creation runs
\* under the pool lock and awaits a backend connect (a subprocess start), so
\* two creations never fall in the same millisecond: the timestamp is
\* modelled by the ordinal of the creation.
ConnId(u) == <<"conn", u, stats.connections_created + 1>>

\* line 191: f"temp_{user_id}_{int(time.time() * 1000)}"
TempId(u) == <<"temp", u, stats.pool_exhausted_count>>

Min(a, b) == IF a < b THEN a ELSE b

InitUser(i) == IF i = 0 THEN "init_0" ELSE "init_1"

\* faulty variant of Released: line 207 is lost
Released_FlagKept(c) == conn

\* line 207: connection.mark_released()
Released(c) == [conn EXCEPT ![c] = mark_released(@)]

\* faulty variant of Requeued: the membership test of line 208 is lost
Requeued_NoMembershipTest(c) == Append(available_connections, c)

\* lines 208-209: append to available_connections unless present
Requeued(c) ==
    IF InSeq(c, available_connections) THEN available_connections
    ELSE Append(available_connections, c)

\* Callers are interchangeable: the callers are named in the order of UserOrder,
\* a call is by a caller named before or by the first one not named yet.
UserOrder == <<"u1", "u2", "u3">>

CanIssue(u) ==
    /\ issued.calls < MaxCalls
    /\ \E i \in 1..Len(UserOrder) :
          /\ UserOrder[i] = u
          /\ \A j \in 1..(i - 1) : UserOrder[j] \in issued.named

Issue(u) == [issued EXCEPT !.calls = @ + 1, !.named = @ \cup {u}]

IssueGet(u) == [Issue(u) EXCEPT !.gets = @ + 1]

\* Coroutines are interchangeable (an idle task has no local state): the
\* calls in progress are run by tasks 1..k, numbered in the order the calls
\* were issued.  A new call is run by the least idle task; when the call of
\* task t returns, the tasks after t move down by one and t is the last.
Starts(t) == pc[t] = "idle" /\ \A o \in Tasks : pc[o] = "idle" => t <= o

NumTasks == Cardinality(Tasks)

\* the task that runs as n once t has left
Old(n, t) == IF n < t THEN n ELSE IF n < NumTasks THEN n + 1 ELSE t

\* the number under which task o runs once t has left
Renumbered(o, t) ==
    IF o = NoTask \/ o < t THEN o ELSE IF o = t THEN NumTasks ELSE o - 1

\* the locals f of the tasks once t has left, its own being reset to `none`
Moved(f, t, none) == [n \in Tasks |-> IF Old(n, t) = t THEN none ELSE f[Old(n, t)]]

\* a call that returns (or raises) to its caller: the coroutine of t is over,
\* the lock is unlocked with w waiting for it; ex: the expect of the tasks
FinishCall(t, w, ex) ==
    /\ pc' = Moved(pc, t, "idle")
    /\ outcome' = Moved(outcome, t, "none")
    /\ user_id' = Moved(user_id, t, NoUser)
    /\ connection' = Moved(connection, t, NoConn)
    /\ yielded' = Moved(yielded, t, NoYield)
    /\ expect' = Moved(ex, t, NoExit)
    /\ awaiting' = [n \in Tasks |->
                       IF Old(n, t) = t \/ awaiting[Old(n, t)] = t THEN NoTask
                       ELSE Renumbered(awaiting[Old(n, t)], t)]
    /\ lock_holder' = NoTask
    /\ lock_waiters' = [i \in 1..Len(w) |-> Renumbered(w[i], t)]

Alone(t) ==
    /\ \A o \in Tasks : o # t => user_id[o] # user_id[t]
    /\ \A l \in leased : l[1] # user_id[t]

\* history: a scope that used a pool-owned connection has exited
ScopeExit(t, how) ==
    IF yielded[t].id[1] = "conn"
    THEN [last_exit EXCEPT ![user_id[t]] = [id |-> yielded[t].id, sole |-> Alone(t),
                                            raised |-> how = "body_error"]]
    ELSE last_exit

\* history: caller u acquires; the exits of the other callers are no longer
\* their latest event, and u's own are no longer followed by no acquisition
Voided(le, u) ==
    [z \in Callers |-> IF z = u THEN [le[z] EXCEPT !.sole = FALSE] ELSE NoExit]

ExpectVoided(t, u) ==
    [o \in Tasks |-> IF o = t THEN NoExit
                     ELSE IF user_id[o] = u THEN [expect[o] EXCEPT !.sole = FALSE]
                     ELSE NoExit]

\* history: caller u issues its next call
Consumed(u) == [last_exit EXCEPT ![u] = NoExit]

\* ------------------------------------------------- ClientPool.get_connection
\* lines 119-123: the user has a connection, it is still in the pool, it is idle
AffinityHit(u) ==
    /\ user_connections[u] # NoConn
    /\ user_connections[u] \in all_connections
    /\ ~conn[user_connections[u]].is_busy

\* lines 119-122: what the local `connection` holds after the affinity check
AffinityLocal(u) ==
    IF user_connections[u] # NoConn /\ user_connections[u] \in all_connections
    THEN user_connections[u]
    ELSE NoConn

RECURSIVE PopIdle(_, _)
\* lines 138-155: pop ids off the deque until an idle connection is found;
\* `last` is the local `connection`, overwritten by every all_connections.get
PopIdle(avail, last) ==
    IF avail = <<>>
    THEN [avail |-> <<>>, found |-> NoConn, connection |-> last]
    ELSE LET cid == Head(avail) IN
         IF cid \in all_connections /\ ~conn[cid].is_busy
         THEN [avail |-> Tail(avail), found |-> cid, connection |-> cid]
         ELSE PopIdle(Tail(avail), IF cid \in all_connections THEN cid ELSE NoConn)

\* faulty variant of UnderLimit: <= for < in line 158
UnderLimit_OffByOne == Cardinality(all_connections) <= pool_size

\* line 158
UnderLimit == Cardinality(all_connections) < pool_size

\* faulty variant of Requested: line 116 is lost
Requested_NotCounted == stats

\* line 116
Requested == [stats EXCEPT !.total_requests = @ + 1]

\* lines 115-200 up to the first suspension (the yield, or the await of a
\* connect), entered with the lock just acquired by t; w: the lock's waiters
Decide(t, u, w, le, ex) ==
    /\ lock_holder' = t
    /\ lock_waiters' = w
    /\ user_id' = [user_id EXCEPT ![t] = u]
    /\ last_exit' = Voided(le, u)
    /\ expect' = ExpectVoided(t, u)
    /\ outcome' = [outcome EXCEPT ![t] = "none"]
    /\ UNCHANGED <<all_connections, awaiting, leased, init_i, disconnected>>
    /\ IF AffinityHit(u)
       THEN LET cid == user_connections[u] IN
            /\ conn' = [conn EXCEPT ![cid] = mark_used(@, u)]
            /\ stats' = [Requested EXCEPT !.connections_reused = @ + 1]
            /\ connection' = [connection EXCEPT ![t] = cid]
            /\ yielded' = [yielded EXCEPT ![t] = [id |-> cid, was_reused |-> TRUE,
                                                    after_exit |-> ex.sole /\ ex.id # NoConn]]
            /\ pc' = [pc EXCEPT ![t] = "body"]
            /\ UNCHANGED <<available_connections, user_connections>>
       ELSE LET r == PopIdle(available_connections, AffinityLocal(u)) IN
            /\ available_connections' = r.avail
            /\ connection' = [connection EXCEPT ![t] = r.connection]
            /\ IF r.found # NoConn
               THEN /\ conn' = [conn EXCEPT ![r.found] = [mark_used(@, u) EXCEPT !.client_user = u]]
                    /\ user_connections' = [user_connections EXCEPT ![u] = r.found]
                    /\ stats' = Requested
                    /\ yielded' = [yielded EXCEPT ![t] = [id |-> r.found, was_reused |-> FALSE, after_exit |-> FALSE]]
                    /\ pc' = [pc EXCEPT ![t] = "body"]
               ELSE /\ UNCHANGED <<conn, user_connections>>
                    /\ yielded' = [yielded EXCEPT ![t] = NoYield]
                    /\ IF UnderLimit
                       THEN /\ stats' = Requested
                            /\ pc' = [pc EXCEPT ![t] = "gc_creating"]
                       ELSE /\ stats' = [Requested EXCEPT !.pool_exhausted_count = @ + 1]
                            /\ pc' = [pc EXCEPT ![t] = "gc_temp_connecting"]

\* the call itself: enter the lock at once, or queue for it
CallGetConnection(t, u) ==
    /\ Starts(t)
    /\ CanIssue(u)
    /\ issued' = IssueGet(u)
    /\ IF LockFree
       THEN Decide(t, u, lock_waiters, Consumed(u), last_exit[u])
       ELSE /\ pc' = [pc EXCEPT ![t] = "gc_wait"]
            /\ user_id' = [user_id EXCEPT ![t] = u]
            /\ outcome' = [outcome EXCEPT ![t] = "none"]
            /\ lock_waiters' = Append(lock_waiters, t)
            /\ UNCHANGED <<conn, all_connections, available_connections, user_connections,
                           stats, lock_holder, connection, yielded, awaiting, leased,
                           init_i, disconnected>>
            /\ last_exit' = Consumed(u)
            /\ expect' = [expect EXCEPT ![t] = last_exit[u]]

GetConnection(t, u) ==
    /\ CallGetConnection(t, u)
    /\ UNCHANGED awaiting

\* the body of p's scope opens another scope and waits for it to close
\* (tests/test_client_pool_health.py 168-170); t runs the inner scope
NestedGetConnection(p, t, u) ==
    /\ pc[p] = "body"
    /\ awaiting[p] = NoTask
    /\ p # t
    /\ Starts(t)
    /\ CanIssue(u)
    /\ issued' = IssueGet(u)
    /\ awaiting' = [awaiting EXCEPT ![p] = t]
    /\ pc' = [pc EXCEPT ![t] = "gc_wait"]
    /\ user_id' = [user_id EXCEPT ![t] = u]
    /\ outcome' = [outcome EXCEPT ![t] = "none"]
    /\ lock_waiters' = Append(lock_waiters, t)
    /\ UNCHANGED <<conn, all_connections, available_connections, user_connections,
                   stats, lock_holder, connection, yielded, leased,
                   init_i, disconnected>>
    /\ last_exit' = Consumed(u)
    /\ expect' = [expect EXCEPT ![t] = last_exit[u]]

\* the suspended `async with self._lock` of line 115 gets the lock
GetConnectionResume(t) ==
    /\ pc[t] = "gc_wait"
    /\ CanResume(t)
    /\ Decide(t, user_id[t], Tail(lock_waiters), last_exit, expect[t])
    /\ UNCHANGED issued

\* lines 202-209 once the lock is held: release `connection` back to the pool
\* and leave; the lock is acquired and released within the step
ReleaseAndLeave(t, how, w) ==
    /\ conn' = Released(connection[t])
    /\ available_connections' = Requeued(connection[t])
    /\ last_exit' = ScopeExit(t, how)
    /\ FinishCall(t, w, expect)

\* leaving the `async with self._lock` block of line 115 (by return or by an
\* exception) and running the finally of lines 202-209
LeaveScope(t, how) ==
    IF connection[t] = NoConn
    THEN /\ last_exit' = ScopeExit(t, how)
         /\ FinishCall(t, lock_waiters, expect)
         /\ UNCHANGED <<conn, available_connections>>
    ELSE IF lock_waiters = <<>>
    THEN ReleaseAndLeave(t, how, lock_waiters)
    ELSE /\ lock_holder' = NoTask
         /\ lock_waiters' = Append(lock_waiters, t)
         /\ pc' = [pc EXCEPT ![t] = "rel_wait"]
         /\ outcome' = [outcome EXCEPT ![t] = how]
         /\ UNCHANGED <<conn, available_connections, user_id, connection, yielded,
                        awaiting, last_exit, expect>>

\* lines 81-106: _create_connection once connect_to_server has returned
Created(cid, u) == conn @@ (cid :> [NewConnection EXCEPT !.client_user = u])

\* lines 159-172: the await of _create_connection returns a connection
CreateOk(t) ==
    /\ pc[t] = "gc_creating"
    /\ LET u == user_id[t]
           cid == ConnId(u) IN
       /\ conn' = [Created(cid, u) EXCEPT ![cid] = mark_used(@, u)]
       /\ all_connections' = all_connections \cup {cid}
       /\ available_connections' = RemoveFirst(Append(available_connections, cid), cid)
       /\ user_connections' = [user_connections EXCEPT ![u] = cid]
       /\ stats' = [stats EXCEPT !.connections_created = @ + 1]
       /\ connection' = [connection EXCEPT ![t] = cid]
       /\ yielded' = [yielded EXCEPT ![t] = [id |-> cid, was_reused |-> FALSE, after_exit |-> FALSE]]
       /\ pc' = [pc EXCEPT ![t] = "body"]
    /\ UNCHANGED <<user_id, awaiting, leased, init_i, disconnected, issued, last_exit, expect,
                   lock_holder, lock_waiters, outcome>>

\* line 94 raises inside line 159: the exception leaves the lock block,
\* the finally of line 202 runs with whatever `connection` holds
CreateFail(t) ==
    /\ pc[t] = "gc_creating"
    /\ LeaveScope(t, "connect_error")
    /\ UNCHANGED <<all_connections, user_connections, stats, leased, init_i,
                   disconnected, issued>>

\* lines 180-196: the temporary client is connected and yielded
TempOk(t) ==
    /\ pc[t] = "gc_temp_connecting"
    /\ yielded' = [yielded EXCEPT ![t] = [id |-> TempId(user_id[t]), was_reused |-> FALSE, after_exit |-> FALSE]]
    /\ pc' = [pc EXCEPT ![t] = "body"]
    /\ UNCHANGED <<conn, all_connections, available_connections, user_connections, stats,
                   lock_holder, lock_waiters, user_id, connection, awaiting, leased,
                   outcome, init_i, last_exit, expect, disconnected, issued>>

\* line 188 raises
TempFail(t) ==
    /\ pc[t] = "gc_temp_connecting"
    /\ LeaveScope(t, "connect_error")
    /\ UNCHANGED <<all_connections, user_connections, stats, leased, init_i,
                   disconnected, issued>>

\* the body of the `async with pool.get_connection(...)` block ends, normally
\* (ok) or by an exception thrown into the generator at its yield
BodyDone(t, ok) ==
    /\ pc[t] = "body"
    /\ awaiting[t] = NoTask
    /\ IF yielded[t].id[1] = "temp"
       THEN \* lines 197-199: await temp_client.disconnect(), the lock still held
            /\ pc' = [pc EXCEPT ![t] = "temp_disconnecting"]
            /\ outcome' = [outcome EXCEPT ![t] = IF ok THEN "ok" ELSE "body_error"]
            /\ UNCHANGED <<conn, available_connections, lock_holder, lock_waiters,
                           user_id, connection, yielded, awaiting, last_exit, expect>>
       ELSE LeaveScope(t, IF ok THEN "ok" ELSE "body_error")
    /\ UNCHANGED <<all_connections, user_connections, stats, leased, init_i,
                   disconnected, issued>>

\* line 199 returns; line 200; then the finally of line 202
TempDisconnected(t) ==
    /\ pc[t] = "temp_disconnecting"
    /\ disconnected' = disconnected \cup {yielded[t].id}
    /\ LeaveScope(t, outcome[t])
    /\ UNCHANGED <<all_connections, user_connections, stats, leased, init_i, issued>>

\* the suspended `async with self._lock` of line 205 gets the lock
ReleaseResume(t) ==
    /\ pc[t] = "rel_wait"
    /\ CanResume(t)
    /\ ReleaseAndLeave(t, outcome[t], Tail(lock_waiters))
    /\ UNCHANGED <<all_connections, user_connections, stats, leased, init_i,
                   disconnected, issued>>

\* --------------------------------------------------------- ClientPool.acquire
\* lines 215-233 with the lock held by t, up to the return or the await of line 227
AcquireLocked(t, u, w, le) ==
    /\ last_exit' = Voided(le, u)
    /\ UNCHANGED <<all_connections, stats, init_i, disconnected>>
    /\ IF available_connections # <<>>
       THEN LET cid == Head(available_connections) IN
            \* lines 218-223: no is_busy test on this path
            /\ available_connections' = Tail(available_connections)
            /\ conn' = [conn EXCEPT ![cid] = [mark_used(@, u) EXCEPT !.client_user = u]]
            /\ user_connections' = [user_connections EXCEPT ![u] = cid]
            /\ leased' = leased \cup {<<u, cid>>}
            /\ FinishCall(t, w, ExpectVoided(t, u))
       ELSE IF UnderLimit
       THEN /\ lock_holder' = t
            /\ lock_waiters' = w
            /\ expect' = ExpectVoided(t, u)
            /\ pc' = [pc EXCEPT ![t] = "acq_creating"]
            /\ user_id' = [user_id EXCEPT ![t] = u]
            /\ outcome' = [outcome EXCEPT ![t] = "none"]
            /\ UNCHANGED <<conn, available_connections, user_connections, leased,
                           connection, yielded, awaiting>>
       ELSE \* line 233: return None
            /\ FinishCall(t, w, ExpectVoided(t, u))
            /\ UNCHANGED <<conn, available_connections, user_connections, leased>>

Acquire(t, u) ==
    /\ Starts(t)
    /\ CanIssue(u)
    /\ issued' = Issue(u)
    /\ IF LockFree
       THEN AcquireLocked(t, u, lock_waiters, Consumed(u))
       ELSE /\ pc' = [pc EXCEPT ![t] = "acq_wait"]
            /\ user_id' = [user_id EXCEPT ![t] = u]
            /\ outcome' = [outcome EXCEPT ![t] = "none"]
            /\ lock_waiters' = Append(lock_waiters, t)
            /\ UNCHANGED <<conn, all_connections, available_connections, user_connections,
                           stats, lock_holder, connection, yielded, awaiting, leased,
                           init_i, expect, disconnected>>
            /\ last_exit' = Consumed(u)

AcquireResume(t) ==
    /\ pc[t] = "acq_wait"
    /\ CanResume(t)
    /\ AcquireLocked(t, user_id[t], Tail(lock_waiters), last_exit)
    /\ UNCHANGED issued

\* lines 227-230: the connection stays in available_connections
AcquireCreateOk(t) ==
    /\ pc[t] = "acq_creating"
    /\ LET u == user_id[t]
           cid == ConnId(u) IN
       /\ conn' = [Created(cid, u) EXCEPT ![cid] = mark_used(@, u)]
       /\ all_connections' = all_connections \cup {cid}
       /\ available_connections' = Append(available_connections, cid)
       /\ user_connections' = [user_connections EXCEPT ![u] = cid]
       /\ stats' = [stats EXCEPT !.connections_created = @ + 1]
       /\ leased' = leased \cup {<<u, cid>>}
    /\ FinishCall(t, lock_waiters, expect)
    /\ UNCHANGED <<init_i, last_exit, disconnected, issued>>

AcquireCreateFail(t) ==
    /\ pc[t] = "acq_creating"
    /\ FinishCall(t, lock_waiters, expect)
    /\ UNCHANGED <<conn, all_connections, available_connections, user_connections, stats,
                   leased, init_i, last_exit, disconnected, issued>>

\* --------------------------------------------------------- ClientPool.release
\* lines 239-246 with the lock held: the client's connection is looked up in
\* all_connections, marked released and re-queued
ReleaseLocked(t, l, w) ==
    /\ leased' = leased \ {l}
    /\ IF l[2] \in all_connections
       THEN /\ conn' = Released(l[2])
            /\ available_connections' = Requeued(l[2])
       ELSE UNCHANGED <<conn, available_connections>>
    /\ FinishCall(t, w, expect)
    /\ UNCHANGED <<all_connections, user_connections, stats, init_i, last_exit,
                   disconnected, issued>>

\* release(client) by the holder l = <<user, connection_id>> of an acquire()
Release(t, l) ==
    /\ Starts(t)
    /\ l \in leased
    /\ \A o \in Tasks : ~(pc[o] = "lrel_wait" /\ connection[o] = l[2] /\ user_id[o] = l[1])
    /\ IF LockFree
       THEN ReleaseLocked(t, l, lock_waiters)
       ELSE /\ pc' = [pc EXCEPT ![t] = "lrel_wait"]
            /\ user_id' = [user_id EXCEPT ![t] = l[1]]
            /\ connection' = [connection EXCEPT ![t] = l[2]]
            /\ outcome' = [outcome EXCEPT ![t] = "none"]
            /\ lock_waiters' = Append(lock_waiters, t)
            /\ UNCHANGED <<conn, all_connections, available_connections, user_connections,
                           stats, lock_holder, yielded, awaiting, leased,
                           init_i, last_exit, expect, disconnected, issued>>

LegacyReleaseResume(t) ==
    /\ pc[t] = "lrel_wait"
    /\ CanResume(t)
    /\ ReleaseLocked(t, <<user_id[t], connection[t]>>, Tail(lock_waiters))

\* ------------------------------------------------------ ClientPool.initialize
\* line 77
InitCount == Min(2, pool_size)

InitLocked(t, w) ==
    /\ lock_holder' = t
    /\ lock_waiters' = w
    /\ pc' = [pc EXCEPT ![t] = "init_creating"]
    /\ init_i' = [init_i EXCEPT ![t] = 0]
    /\ outcome' = [outcome EXCEPT ![t] = "none"]
    /\ UNCHANGED <<conn, all_connections, available_connections, user_connections,
                   stats, user_id, connection, yielded, awaiting, leased,
                   last_exit, expect, disconnected>>

Initialize(t) ==
    /\ Starts(t)
    /\ issued.calls < MaxCalls
    /\ issued' = [issued EXCEPT !.calls = @ + 1]
    /\ IF LockFree
       THEN InitLocked(t, lock_waiters)
       ELSE /\ pc' = [pc EXCEPT ![t] = "init_wait"]
            /\ outcome' = [outcome EXCEPT ![t] = "none"]
            /\ lock_waiters' = Append(lock_waiters, t)
            /\ UNCHANGED <<conn, all_connections, available_connections, user_connections,
                           stats, lock_holder, user_id, connection, yielded, awaiting,
                           leased, init_i, last_exit, expect, disconnected>>

InitializeResume(t) ==
    /\ pc[t] = "init_wait"
    /\ CanResume(t)
    /\ InitLocked(t, Tail(lock_waiters))
    /\ UNCHANGED issued

\* line 78: one _create_connection(f"init_{i}") returns
InitCreateOk(t) ==
    /\ pc[t] = "init_creating"
    /\ LET u == InitUser(init_i[t])
           cid == ConnId(u) IN
       /\ conn' = Created(cid, u)
       /\ all_connections' = all_connections \cup {cid}
       /\ available_connections' = Append(available_connections, cid)
    /\ stats' = [stats EXCEPT !.connections_created = @ + 1]
    /\ IF init_i[t] + 1 < InitCount
       THEN /\ init_i' = [init_i EXCEPT ![t] = @ + 1]
            /\ UNCHANGED <<lock_holder, lock_waiters, pc, outcome, user_id, connection,
                           yielded, awaiting, expect>>
       ELSE /\ init_i' = [init_i EXCEPT ![t] = 0]
            /\ FinishCall(t, lock_waiters, expect)
    /\ UNCHANGED <<user_connections, leased, last_exit, disconnected, issued>>

InitCreateFail(t) ==
    /\ pc[t] = "init_creating"
    /\ init_i' = [init_i EXCEPT ![t] = 0]
    /\ FinishCall(t, lock_waiters, expect)
    /\ UNCHANGED <<conn, all_connections, available_connections, user_connections, stats,
                   leased, last_exit, disconnected, issued>>

\* ================================================ EnhancedRedisSessionService
\* services/redis/redis_service_enhanced.py.  One caller's keys are modelled;
\* a step is one Redis round trip together with the local code that follows
\* it up to the next round trip.  The 24 h expiry of the session key is not
\* modelled; the 10 s expiry of the lock key is (LockExpires).
SessionUser == "u1"

\* the coroutines (or worker processes) that call the session store
Workers == {1, 2}

\* a key that does not exist, and Python's None: the empty sequence; a value
\* v that is present: <<v>>
Absent == <<>>

\* lock_value = f"{datetime.utcnow().timestamp()}" (line 350): the timestamps
\* two calls can draw, equal or different
Tokens == {1, 2}

\* line 510
max_retries == 3

\* RetryPolicy.max_retries (line 83), the default policy of @with_retry()
policy_max_retries == 3

\* lines 379-438: the fields the modelled code reads or writes; created_at
\* (a timestamp) is the ordinal of the construction
\* faulty variant of create_default_session: the version starts at 0
create_default_session_VersionZero(at) ==
    [user_id |-> SessionUser, created_at |-> at, version |-> 0,
     cart |-> [items |-> <<>>, total_items |-> 0, total_amount |-> 0],
     conversation_context |-> [history |-> <<>>, current_flow |-> "browsing"]]

create_default_session(at) ==
    [user_id |-> SessionUser, created_at |-> at, version |-> 1,
     cart |-> [items |-> <<>>, total_items |-> 0, total_amount |-> 0],
     conversation_context |-> [history |-> <<>>, current_flow |-> "browsing"]]

\* the `updates` arguments explored: two keys of one nested dict, a key of
\* another one, and a value that validation rejects
UpdateArgs ==
    { [cart |-> [total_items |-> 1]],
      [cart |-> [total_amount |-> 1]],
      [conversation_context |-> [current_flow |-> "checkout"]],
      [cart |-> [total_amount |-> -1]] }

\* the initial_data arguments explored (<<>>: None), the last one rejected by
\* the validation
InitialData ==
    { Absent,
      <<[conversation_context |-> [current_flow |-> "checkout"]]>>,
      <<[cart |-> [total_amount |-> -1]]>> }

\* the keys whose values are dicts, in the session and in the arguments alike:
\* isinstance(result[key], dict) and isinstance(value, dict) of line 598
DictKeys == {"cart", "conversation_context"}

\* faulty variant of deep_merge: dict.update, a nested dict is replaced whole
deep_merge_Shallow(base, upd) ==
    [k \in DOMAIN base \cup DOMAIN upd |-> IF k \in DOMAIN upd THEN upd[k] ELSE base[k]]

RECURSIVE deep_merge(_, _)
\* faulty variant of deep_merge: a list of the update is appended to the list
\* of the base
deep_merge_ExtendsLists(base, upd) ==
    [k \in DOMAIN base \cup DOMAIN upd |->
        IF k \notin DOMAIN upd THEN base[k]
        ELSE IF k \in DOMAIN base /\ k \in DictKeys THEN deep_merge(base[k], upd[k])
        ELSE IF k \in DOMAIN base /\ k = "items" THEN base[k] \o upd[k]
        ELSE upd[k]]

\* lines 592-603
deep_merge(base, upd) ==
    [k \in DOMAIN base \cup DOMAIN upd |->
        IF k \notin DOMAIN upd THEN base[k]
        ELSE IF k \in DOMAIN base /\ k \in DictKeys THEN deep_merge(base[k], upd[k])
        ELSE upd[k]]

\* line 582: of the required fields, those the modelled session carries
required_fields == {"user_id", "created_at"}

\* lines 580-590: TRUE when no ValueError is raised
validate_session_data(s) ==
    /\ required_fields \subseteq DOMAIN s
    /\ ("cart" \in DOMAIN s /\ "total_amount" \in DOMAIN s.cart) => s.cart.total_amount >= 0

\* str(current_version) of line 557 and tostring(current_data.version) of
\* line 544 (Lua's %.14g): both give the decimal digits of an integer below
\* 10^14, written here as the tagged number
PyStr(n) == <<"dec", n>>

LuaToString(n) == <<"dec", n>>

\* faulty variant of CasScript: the version comparison of line 544 is lost
CasScript_NoVersionCheck(stored, new_data, expected_version) ==
    IF stored = Absent THEN [result |-> 0, stored |-> stored]
    ELSE [result |-> 1, stored |-> <<new_data>>]

\* lines 532-550, run atomically by the primary node
CasScript(stored, new_data, expected_version) ==
    IF stored = Absent THEN [result |-> 0, stored |-> stored]
    ELSE IF LuaToString(stored[1].version) = expected_version
    THEN [result |-> 1, stored |-> <<new_data>>]
    ELSE [result |-> 0, stored |-> stored]

\* lines 363-371, run atomically by the primary node
UnlockScript(lock, token) == IF lock = <<token>> THEN Absent ELSE lock

\* lines 489-500: the first node that answers with a value; f tells which
\* reads fail ("none", "primary": the primary's, "all": every node's)
\* faulty variant of get_session: only the primary is asked
get_session_NoFallback(f) ==
    IF f \in {"primary", "all"} THEN Absent ELSE redis_session

get_session(f) ==
    IF f = "none" THEN (IF redis_session # Absent THEN redis_session ELSE replica_session)
    ELSE IF f = "primary" THEN replica_session
    ELSE IF f = "secondary" THEN redis_session
    ELSE Absent

NoRet == [op |-> "none", kind |-> "none", session |-> Absent, updates |-> Absent, attempts |-> 0,
          failed |-> "none"]

\* ------------------------------------------------- webhook.process_message
\* the process_message tasks that run at once
Handlers == {1, 2}

NoMessage == 0

\* Config.HISTORY_TO_STORE, and the literal of enablex_webhook.py line 311
HISTORY_TO_STORE == 20

\* one entry of conversation_history: the role and the message it belongs to
Turn(role, m) == <<role, m>>

\* the history left by an earlier conversation, n entries long
OldHistory(n) == [i \in 1..n |-> Turn(IF i % 2 = 1 THEN "user" ELSE "assistant", NoMessage)]

\* the lengths of the history stored when the run starts
SeedLens == {0, 18, 20}

\* Python's s[-n:]
LastN(s, n) == IF Len(s) <= n THEN s ELSE SubSeq(s, Len(s) - n + 1, Len(s))

\* enablex_webhook.py lines 297-311 and mcp_client.py lines 335-339: the user
\* turn and the assistant turn are appended, the last 20 entries are kept
Appended(h, m) == LastN(h \o <<Turn("user", m), Turn("assistant", m)>>, HISTORY_TO_STORE)

WebhookInit(stored) ==
    /\ kv_session = stored
    /\ wh_pc = [p \in Handlers |-> "idle"]
    /\ message = [p \in Handlers |-> NoMessage]
    /\ session = [p \in Handlers |-> <<>>]
    /\ session_context = [p \in Handlers |-> <<>>]
    /\ scope_holder = NoTask
    /\ scope_waiters = <<>>
    /\ received = 0
    /\ answered = {}

\* what a step of one process_message task leaves alone
Own(p, f, v) == [f EXCEPT ![p] = v]

\* lines 209-227: a message arrives and its task awaits the GET of the key
ProcessMessage(p) ==
    /\ wh_pc[p] = "idle"
    /\ \A o \in Handlers : wh_pc[o] = "idle" => p <= o
    /\ received < MaxMessages
    /\ received' = received + 1
    /\ message' = Own(p, message, received + 1)
    /\ wh_pc' = Own(p, wh_pc, "wh_get")
    /\ UNCHANGED <<kv_session, session, session_context, scope_holder, scope_waiters, answered>>

\* lines 222-235: the GET answers; without a stored value a new session with
\* an empty conversation_history is made, and nothing is written
WebhookGet(p) ==
    /\ wh_pc[p] = "wh_get"
    /\ session' = Own(p, session, IF kv_session = Absent THEN <<>> ELSE kv_session[1])
    /\ wh_pc' = Own(p, wh_pc, "wh_enter")
    /\ UNCHANGED <<kv_session, message, session_context, scope_holder, scope_waiters,
                   received, answered>>

\* line 269 and client_pool.py line 115: the scope takes the pool's lock, or
\* waits for it; every yield of get_connection is inside the lock
EnterScope(p) ==
    /\ wh_pc[p] = "wh_enter"
    /\ IF scope_holder = NoTask /\ scope_waiters = <<>>
       THEN /\ scope_holder' = p
            /\ wh_pc' = Own(p, wh_pc, "mc_get")
            /\ UNCHANGED scope_waiters
       ELSE /\ scope_waiters' = Append(scope_waiters, p)
            /\ wh_pc' = Own(p, wh_pc, "wh_wait")
            /\ UNCHANGED scope_holder
    /\ UNCHANGED <<kv_session, message, session, session_context, received, answered>>

\* the lock is free and p is the first waiter
ScopeResume(p) ==
    /\ wh_pc[p] = "wh_wait"
    /\ scope_holder = NoTask
    /\ scope_waiters # <<>> /\ Head(scope_waiters) = p
    /\ scope_holder' = p
    /\ scope_waiters' = Tail(scope_waiters)
    /\ wh_pc' = Own(p, wh_pc, "mc_get")
    /\ UNCHANGED <<kv_session, message, session, session_context, received, answered>>

\* mcp_client.py lines 212-223 and redis_adapter.py lines 101-144: the client
\* reads the same key; without a stored value it stores the default context
ClientGet(p) ==
    /\ wh_pc[p] = "mc_get"
    /\ session_context' = Own(p, session_context, IF kv_session = Absent THEN <<>> ELSE kv_session[1])
    /\ kv_session' = IF kv_session = Absent THEN <<(<<>>)>> ELSE kv_session
    /\ wh_pc' = Own(p, wh_pc, "mc_update")
    /\ UNCHANGED <<message, session, scope_holder, scope_waiters, received, answered>>

\* mcp_client.py lines 146-164 and 330-345: the reply is made and the context
\* with both turns is stored (ok), or the processing fails before line 164
\* and nothing is stored; then the scope ends and gives up the lock
ClientUpdate(p, ok) ==
    /\ wh_pc[p] = "mc_update"
    /\ IF ok
       THEN /\ session_context' = Own(p, session_context, Appended(session_context[p], message[p]))
            /\ kv_session' = <<Appended(session_context[p], message[p])>>
       ELSE UNCHANGED <<session_context, kv_session>>
    /\ scope_holder' = NoTask
    /\ wh_pc' = Own(p, wh_pc, "wh_set")
    /\ UNCHANGED <<message, session, scope_waiters, received, answered>>

\* enablex_webhook.py lines 297-323: both turns are appended to the session
\* read at line 222, the last 20 entries are kept, the key is SET
WebhookSet(p) ==
    /\ wh_pc[p] = "wh_set"
    /\ session' = Own(p, session, Appended(session[p], message[p]))
    /\ kv_session' = <<Appended(session[p], message[p])>>
    /\ wh_pc' = Own(p, wh_pc, "wh_send")
    /\ UNCHANGED <<message, session_context, scope_holder, scope_waiters, received, answered>>

\* line 326: the reply is sent and the task ends
SendReply(p) ==
    /\ wh_pc[p] = "wh_send"
    /\ answered' = answered \cup {message[p]}
    /\ wh_pc' = Own(p, wh_pc, "idle")
    /\ message' = Own(p, message, NoMessage)
    /\ session' = Own(p, session, <<>>)
    /\ session_context' = Own(p, session_context, <<>>)
    /\ UNCHANGED <<kv_session, scope_holder, scope_waiters, received>>

\* CircuitBreaker.__init__, lines 33-41 (None: NoTime)
NoTime == -1

failure_threshold == 3

recovery_timeout == 5

BreakerInit ==
    /\ circuit_breaker = [state |-> "closed", failure_count |-> 0, last_failure_time |-> NoTime]
    /\ now = 0

\* the fields of the session service after __init__, with `stored` on the primary
ServiceInit(stored) ==
    /\ BreakerInit
    /\ redis_session = stored
    /\ replica_session = Absent
    /\ redis_lock = Absent
    /\ lock_writer = NoTask
    /\ active_sessions = {}
    /\ spc = [t \in Workers |-> "idle"]
    /\ updates = [t \in Workers |-> Absent]
    /\ attempt = [t \in Workers |-> 0]
    /\ retry = [t \in Workers |-> 0]
    /\ current_version = [t \in Workers |-> 0]
    /\ session_data = [t \in Workers |-> Absent]
    /\ lock_value = [t \in Workers |-> 0]
    /\ ret = [t \in Workers |-> NoRet]
    /\ rival = [t \in Workers |-> NoTask]
    /\ commit_log = <<>>
    /\ persisted = 0
    /\ built = 0
    /\ faults = 0
    /\ session_calls = 0

SessionInit(stored) == ServiceInit(stored) /\ WebhookInit(Absent)

\* Idle coroutines are interchangeable: a new call is run by the least idle task.
SessionStarts(t) == spc[t] = "idle" /\ \A o \in Workers : spc[o] = "idle" => t <= o

\* the call returns (kind "ok") or raises to its caller
SessionReturn(t, op, kind, sess) ==
    /\ spc' = [spc EXCEPT ![t] = "idle"]
    /\ ret' = [ret EXCEPT ![t] = [op |-> op, kind |-> kind, session |-> sess,
                                  updates |-> updates[t], attempts |-> attempt[t] + 1,
                                  failed |-> "none"]]
    /\ updates' = [updates EXCEPT ![t] = Absent]
    /\ attempt' = [attempt EXCEPT ![t] = 0]
    /\ retry' = [retry EXCEPT ![t] = 0]
    /\ current_version' = [current_version EXCEPT ![t] = 0]
    /\ session_data' = [session_data EXCEPT ![t] = Absent]
    /\ lock_value' = [lock_value EXCEPT ![t] = 0]

\* ---------------------------------------------------------------- with_retry
\* what one invocation of a wrapped function does: it returns, raises one of
\* redis.exceptions.ConnectionError / TimeoutError (line 18), or raises
\* anything else
Outcomes == {"ok", "connection_error", "timeout_error", "other_error"}

Connectivity == {"connection_error", "timeout_error"}

\* a function wrapped by with_retry() is called: line 106, the loop starts
WrappedCall(t) ==
    /\ SessionStarts(t)
    /\ session_calls < MaxSessionCalls
    /\ session_calls' = session_calls + 1
    /\ spc' = [spc EXCEPT ![t] = "w_call"]
    /\ retry' = [retry EXCEPT ![t] = 0]
    /\ ret' = [ret EXCEPT ![t] = [NoRet EXCEPT !.op = "wrapped"]]
    /\ UNCHANGED <<redis_session, replica_session, redis_lock, lock_writer, active_sessions,
                   updates, attempt, current_version, session_data, lock_value, rival,
                   commit_log, persisted, built, faults>>

\* faulty variant of Invoked: every exception is retried
Invoked_RetriesAll(t, o) ==
    /\ spc[t] = "w_call"
    /\ ret' = [ret EXCEPT ![t].kind = o, ![t].attempts = @ + 1]
    /\ IF o # "ok" /\ retry[t] < policy_max_retries
       THEN /\ retry' = [retry EXCEPT ![t] = @ + 1]
            /\ UNCHANGED spc
       ELSE /\ retry' = [retry EXCEPT ![t] = 0]
            /\ spc' = [spc EXCEPT ![t] = "idle"]
    /\ UNCHANGED <<redis_session, replica_session, redis_lock, lock_writer, active_sessions,
                   updates, attempt, current_version, session_data, lock_value, rival,
                   commit_log, persisted, built, faults, session_calls>>

\* lines 107-122: the invocation of loop index retry[t] ends with outcome o;
\* ret[t].kind holds the result or last_exception, ret[t].attempts the
\* invocations made
Invoked(t, o) ==
    /\ spc[t] = "w_call"
    /\ ret' = [ret EXCEPT ![t].kind = o, ![t].attempts = @ + 1]
    /\ IF o \in Connectivity /\ retry[t] < policy_max_retries
       THEN /\ retry' = [retry EXCEPT ![t] = @ + 1]
            /\ UNCHANGED spc
       ELSE /\ retry' = [retry EXCEPT ![t] = 0]
            /\ spc' = [spc EXCEPT ![t] = "idle"]
    /\ UNCHANGED <<redis_session, replica_session, redis_lock, lock_writer, active_sessions,
                   updates, attempt, current_version, session_data, lock_value, rival,
                   commit_log, persisted, built, faults, session_calls>>

\* ------------------------------------------------------------ CircuitBreaker
\* lines 75-78
should_attempt_reset(cb, at) ==
    cb.last_failure_time # NoTime /\ at - cb.last_failure_time > recovery_timeout

\* faulty variant of on_success: the failure count is kept
on_success_KeepsCount(cb) == [cb EXCEPT !.state = "closed"]

\* lines 60-64
on_success(cb) == [cb EXCEPT !.failure_count = 0, !.state = "closed"]

\* faulty variant of on_failure: the threshold is never applied
on_failure_NeverOpens(cb, at) ==
    [cb EXCEPT !.failure_count = @ + 1, !.last_failure_time = at]

\* lines 66-73
on_failure(cb, at) ==
    [cb EXCEPT !.failure_count = @ + 1,
               !.last_failure_time = at,
               !.state = IF cb.failure_count + 1 >= failure_threshold THEN "open" ELSE @]

\* lines 43-53: call(func) is made; the state is tested under the lock and
\* func is invoked, or ConnectionError("Circuit breaker is OPEN") is raised
BreakerCall(t) ==
    /\ SessionStarts(t)
    /\ IF circuit_breaker.state = "open" /\ ~should_attempt_reset(circuit_breaker, now)
       THEN /\ ret' = [ret EXCEPT ![t] = [NoRet EXCEPT !.op = "breaker", !.kind = "circuit_open"]]
            /\ UNCHANGED <<spc, circuit_breaker>>
       ELSE /\ spc' = [spc EXCEPT ![t] = "cb_invoking"]
            /\ ret' = [ret EXCEPT ![t] = [NoRet EXCEPT !.op = "breaker"]]
            /\ circuit_breaker' = IF circuit_breaker.state = "open"
                                  THEN [circuit_breaker EXCEPT !.state = "half_open"]
                                  ELSE circuit_breaker
    /\ UNCHANGED <<redis_session, replica_session, redis_lock, lock_writer, active_sessions,
                   updates, attempt, retry, current_version, session_data, lock_value, rival,
                   commit_log, persisted, built, faults, session_calls, now>>

\* lines 53-58: func returns (ok) or raises; _on_success or _on_failure runs
\* and the result or the exception goes to the caller
BreakerInvoked(t, ok) ==
    /\ spc[t] = "cb_invoking"
    /\ spc' = [spc EXCEPT ![t] = "idle"]
    /\ ret' = [ret EXCEPT ![t].kind = IF ok THEN "ok" ELSE "failed", ![t].attempts = 1]
    /\ circuit_breaker' = IF ok THEN on_success(circuit_breaker)
                          ELSE on_failure(circuit_breaker, now)
    /\ UNCHANGED <<redis_session, replica_session, redis_lock, lock_writer, active_sessions,
                   updates, attempt, retry, current_version, session_data, lock_value, rival,
                   commit_log, persisted, built, faults, session_calls, now>>

\* a second passes
Tick ==
    /\ now < MaxTime
    /\ now' = now + 1
    /\ UNCHANGED <<sessVars, circuit_breaker>>

\* ------------------------------------------------------------ update_session
\* faulty variant of FailAttempt: the loop of line 511 has no last attempt
FailAttempt_NoLastAttempt(t, why, transient) ==
    /\ attempt' = [attempt EXCEPT ![t] = IF @ < max_retries - 1 THEN @ + 1 ELSE @]
    /\ spc' = [spc EXCEPT ![t] = "u_read"]
    /\ current_version' = [current_version EXCEPT ![t] = 0]
    /\ session_data' = [session_data EXCEPT ![t] = Absent]
    /\ UNCHANGED <<ret, updates, retry, lock_value>>

\* lines 572-578: an exception raised inside the loop body is retried until
\* the last attempt, then raised; lines 106-122: with_retry calls the function
\* again after a ConnectionError or a TimeoutError, and passes anything else on
FailAttempt(t, why, transient) ==
    IF attempt[t] < max_retries - 1
    THEN /\ attempt' = [attempt EXCEPT ![t] = @ + 1]
         /\ spc' = [spc EXCEPT ![t] = "u_read"]
         /\ current_version' = [current_version EXCEPT ![t] = 0]
         /\ session_data' = [session_data EXCEPT ![t] = Absent]
         /\ UNCHANGED <<ret, updates, retry, lock_value>>
    ELSE IF transient /\ retry[t] < policy_max_retries
    THEN /\ retry' = [retry EXCEPT ![t] = @ + 1]
         /\ attempt' = [attempt EXCEPT ![t] = 0]
         /\ spc' = [spc EXCEPT ![t] = "u_read"]
         /\ current_version' = [current_version EXCEPT ![t] = 0]
         /\ session_data' = [session_data EXCEPT ![t] = Absent]
         /\ UNCHANGED <<ret, updates, lock_value>>
    ELSE SessionReturn(t, "update", why, Absent)

\* update_session(user_id, updates) is called
UpdateSession(t, u) ==
    /\ SessionStarts(t)
    /\ session_calls < MaxSessionCalls
    /\ session_calls' = session_calls + 1
    /\ spc' = [spc EXCEPT ![t] = "u_read"]
    /\ updates' = [updates EXCEPT ![t] = <<u>>]
    /\ ret' = [ret EXCEPT ![t] = NoRet]
    /\ rival' = [rival EXCEPT ![t] = NoTask]
    /\ UNCHANGED <<redis_session, replica_session, redis_lock, lock_writer, active_sessions,
                   attempt, retry, current_version, session_data, lock_value,
                   commit_log, persisted, built, faults>>

\* lines 517-529: get_session answers; merge, bump the version, validate
UpdateRead(t, f) ==
    /\ spc[t] = "u_read"
    /\ f # "none" => faults < MaxFaults
    /\ faults' = IF f = "none" THEN faults ELSE faults + 1
    /\ LET v == get_session(f) IN
       IF v = Absent
       THEN FailAttempt(t, "not_found", FALSE)
       ELSE LET merged == [deep_merge(v[1], updates[t][1]) EXCEPT !.version = v[1].version + 1] IN
            IF ~validate_session_data(merged)
            THEN FailAttempt(t, "invalid", FALSE)
            ELSE /\ current_version' = [current_version EXCEPT ![t] = v[1].version]
                 /\ session_data' = [session_data EXCEPT ![t] = <<merged>>]
                 /\ spc' = [spc EXCEPT ![t] = "u_cas"]
                 /\ UNCHANGED <<ret, updates, attempt, retry, lock_value>>
    /\ UNCHANGED <<redis_session, replica_session, redis_lock, lock_writer, active_sessions,
                   rival, commit_log, persisted, built, session_calls>>

\* history: the write the script commits
Logged(r, t) ==
    IF r.result = 1
    THEN Append(commit_log, [version |-> r.stored[1].version,
                             stored |-> redis_session[1].version,
                             read |-> current_version[t]])
    ELSE commit_log

\* lines 552-570: the script runs on the primary node and its answer arrives
UpdateCas(t) ==
    /\ spc[t] = "u_cas"
    /\ LET r == CasScript(redis_session, session_data[t][1], PyStr(current_version[t])) IN
       /\ redis_session' = r.stored
       /\ commit_log' = Logged(r, t)
       /\ IF r.result = 1
          THEN SessionReturn(t, "update", "ok", session_data[t])
          ELSE FailAttempt(t, "optimistic_lock_failed", FALSE)
    /\ UNCHANGED <<replica_session, redis_lock, lock_writer, active_sessions, rival,
                   persisted, built, faults, session_calls>>

\* line 552 raises ConnectionError or TimeoutError: the command was lost
\* before the node ran the script, or its answer was lost after (applied)
CasError(t, applied) ==
    /\ spc[t] = "u_cas"
    /\ faults < MaxFaults
    /\ faults' = faults + 1
    /\ LET r == CasScript(redis_session, session_data[t][1], PyStr(current_version[t])) IN
       IF applied
       THEN /\ redis_session' = r.stored
            /\ commit_log' = Logged(r, t)
       ELSE UNCHANGED <<redis_session, commit_log>>
    /\ FailAttempt(t, "connection_error", TRUE)
    /\ UNCHANGED <<replica_session, redis_lock, lock_writer, active_sessions, rival,
                   persisted, built, session_calls>>

\* get_session(user_id) is called and answers (lines 481-504); failed: the
\* stores whose GET raises during the call
GetSession(t, f) ==
    /\ SessionStarts(t)
    /\ session_calls < MaxSessionCalls
    /\ session_calls' = session_calls + 1
    /\ f # "none" => faults < MaxFaults
    /\ faults' = IF f = "none" THEN faults ELSE faults + 1
    /\ ret' = [ret EXCEPT ![t] = [op |-> "get", kind |-> "ok", session |-> get_session(f),
                                  updates |-> Absent, attempts |-> 1, failed |-> f]]
    /\ UNCHANGED <<redis_session, replica_session, redis_lock, lock_writer, active_sessions,
                   spc, updates, attempt, retry, current_version, session_data, lock_value,
                   rival, commit_log, persisted, built>>

\* lines 469 and 545, SETEX with ttl: the session key expires on the primary
SessionExpires ==
    /\ redis_session # Absent
    /\ redis_session' = Absent
    /\ UNCHANGED <<replica_session, redis_lock, lock_writer, active_sessions, spc, updates,
                   attempt, retry, current_version, session_data, lock_value, ret, rival,
                   commit_log, persisted, built, faults, session_calls>>

\* the further node catches up with the primary
Replicate ==
    /\ replica_session # redis_session
    /\ replica_session' = redis_session
    /\ UNCHANGED <<redis_session, redis_lock, lock_writer, active_sessions, spc, updates, attempt,
                   retry, current_version, session_data, lock_value, ret, rival,
                   commit_log, persisted, built, faults, session_calls>>

\* ------------------------------------------------------------ create_session
\* history: t's call overlaps the create_session of another task, the caller
\* having no session
Rivals(t) ==
    LET others == {q \in Workers \ {t} : spc[q] # "idle"} IN
    IF redis_session = Absent /\ others # {}
    THEN LET q == CHOOSE o \in others : TRUE IN [rival EXCEPT ![t] = q, ![q] = t]
    ELSE [rival EXCEPT ![t] = NoTask]

\* create_session is called; lines 349-357: SET lock_key lock_value NX EX 10
CreateSession(t, tok, init) ==
    /\ SessionStarts(t)
    /\ session_calls < MaxSessionCalls
    /\ session_calls' = session_calls + 1
    /\ updates' = [updates EXCEPT ![t] = init]
    /\ lock_value' = [lock_value EXCEPT ![t] = tok]
    /\ ret' = [ret EXCEPT ![t] = NoRet]
    /\ rival' = Rivals(t)
    /\ IF redis_lock = Absent
       THEN /\ redis_lock' = <<tok>>
            /\ lock_writer' = t
            /\ spc' = [spc EXCEPT ![t] = "c_get"]
       ELSE /\ UNCHANGED <<redis_lock, lock_writer>>
            /\ spc' = [spc EXCEPT ![t] = "c_refused"]
    /\ UNCHANGED <<redis_session, replica_session, active_sessions, attempt, retry,
                   current_version, session_data, commit_log, persisted, built, faults>>

\* faulty variant of CreateRefused: the refused caller enters the body
CreateRefused_RunsBody(t) ==
    /\ spc[t] = "c_refused"
    /\ spc' = [spc EXCEPT ![t] = "c_get"]
    /\ UNCHANGED <<redis_session, replica_session, redis_lock, lock_writer, active_sessions,
                   updates, attempt, retry, current_version, session_data, lock_value, ret,
                   rival, commit_log, persisted, built, faults, session_calls>>

\* lines 357 and 361-373: the lock was not acquired; the ValueError leaves
\* through the finally, whose script runs with this call's lock_value
CreateRefused(t) ==
    /\ spc[t] = "c_refused"
    /\ redis_lock' = UnlockScript(redis_lock, lock_value[t])
    /\ lock_writer' = IF redis_lock' = Absent THEN NoTask ELSE lock_writer
    /\ SessionReturn(t, "create", "lock_error", Absent)
    /\ UNCHANGED <<redis_session, replica_session, active_sessions, rival,
                   commit_log, persisted, built, faults, session_calls>>

\* faulty variant of CreateGet: the seed data is merged into the session found
\* and the result is stored
CreateGet_MergesSeed(t) ==
    /\ spc[t] = "c_get"
    /\ LET d == IF redis_session # Absent THEN redis_session[1] ELSE create_default_session(built + 1)
           m == IF updates[t] = Absent THEN d ELSE deep_merge(d, updates[t][1]) IN
       /\ built' = IF redis_session # Absent THEN built ELSE built + 1
       /\ session_data' = [session_data EXCEPT ![t] = <<m>>]
       /\ spc' = [spc EXCEPT ![t] = IF validate_session_data(m) THEN "c_write" ELSE "c_invalid"]
    /\ UNCHANGED <<redis_session, replica_session, redis_lock, lock_writer, active_sessions, updates,
                   attempt, retry, current_version, lock_value, ret, rival,
                   commit_log, persisted, faults, session_calls>>

\* lines 451-466: GET session_key; return the session found, or build one
CreateGet(t) ==
    /\ spc[t] = "c_get"
    /\ IF redis_session # Absent
       THEN /\ session_data' = [session_data EXCEPT ![t] = redis_session]
            /\ spc' = [spc EXCEPT ![t] = "c_release"]
            /\ UNCHANGED built
       ELSE LET d == create_default_session(built + 1)
                m == IF updates[t] = Absent THEN d ELSE deep_merge(d, updates[t][1]) IN
            /\ built' = built + 1
            /\ session_data' = [session_data EXCEPT ![t] = <<m>>]
            /\ spc' = [spc EXCEPT ![t] = IF validate_session_data(m) THEN "c_write" ELSE "c_invalid"]
    /\ UNCHANGED <<redis_session, replica_session, redis_lock, lock_writer, active_sessions, updates,
                   attempt, retry, current_version, lock_value, ret, rival,
                   commit_log, persisted, faults, session_calls>>

\* lines 469-472: the pipeline (MULTI/EXEC) of SETEX and SADD
CreateWrite(t) ==
    /\ spc[t] = "c_write"
    /\ redis_session' = session_data[t]
    /\ active_sessions' = active_sessions \cup {SessionUser}
    /\ persisted' = persisted + 1
    /\ spc' = [spc EXCEPT ![t] = "c_release"]
    /\ UNCHANGED <<replica_session, redis_lock, lock_writer, updates, attempt, retry, current_version,
                   session_data, lock_value, ret, rival, commit_log, built, faults,
                   session_calls>>

\* lines 361-373 after the body: the unlock script, then the return (or the
\* ValueError of the validation)
CreateRelease(t) ==
    /\ spc[t] \in {"c_release", "c_invalid"}
    /\ redis_lock' = UnlockScript(redis_lock, lock_value[t])
    /\ lock_writer' = IF redis_lock' = Absent THEN NoTask ELSE lock_writer
    /\ IF spc[t] = "c_release"
       THEN SessionReturn(t, "create", "ok", session_data[t])
       ELSE SessionReturn(t, "create", "invalid", Absent)
    /\ UNCHANGED <<redis_session, replica_session, active_sessions, rival,
                   commit_log, persisted, built, faults, session_calls>>

\* line 355, ex=timeout: the lock key expires
LockExpires ==
    /\ redis_lock # Absent
    /\ redis_lock' = Absent
    /\ lock_writer' = NoTask
    /\ UNCHANGED <<redis_session, replica_session, active_sessions, spc, updates, attempt,
                   retry, current_version, session_data, lock_value, ret, rival,
                   commit_log, persisted, built, faults, session_calls>>

\* ----------------------------------------------------------- ClientPool.close
\* the connections close() has still to disconnect, and the next of them in
\* the order of the dict (the order of creation)
ToClose == all_connections \ disconnected

NextToClose == CHOOSE c \in ToClose : \A d \in ToClose : c[3] <= d[3]

\* lines 274-276 and the end of the lock block
CloseClears(t, w) ==
    /\ all_connections' = {}
    /\ available_connections' = <<>>
    /\ user_connections' = [u \in Callers |-> NoConn]
    /\ FinishCall(t, w, expect)

\* lines 263-269 with the lock held by t, up to the first await of line 269
CloseLocked(t, w) ==
    /\ IF all_connections = {}
       THEN CloseClears(t, w)
       ELSE /\ lock_holder' = t
            /\ lock_waiters' = w
            /\ pc' = [pc EXCEPT ![t] = "closing"]
            /\ outcome' = [outcome EXCEPT ![t] = "none"]
            /\ UNCHANGED <<all_connections, available_connections, user_connections,
                           user_id, connection, yielded, awaiting, expect>>
    /\ UNCHANGED <<conn, stats, leased, init_i, last_exit, disconnected>>

Close(t) ==
    /\ Starts(t)
    /\ issued.calls < MaxCalls
    /\ issued' = [issued EXCEPT !.calls = @ + 1]
    /\ IF LockFree
       THEN CloseLocked(t, lock_waiters)
       ELSE /\ pc' = [pc EXCEPT ![t] = "close_wait"]
            /\ outcome' = [outcome EXCEPT ![t] = "none"]
            /\ lock_waiters' = Append(lock_waiters, t)
            /\ UNCHANGED <<conn, all_connections, available_connections, user_connections,
                           stats, lock_holder, user_id, connection, yielded, awaiting,
                           leased, init_i, last_exit, expect, disconnected>>

CloseResume(t) ==
    /\ pc[t] = "close_wait"
    /\ CanResume(t)
    /\ CloseLocked(t, Tail(lock_waiters))
    /\ UNCHANGED issued

\* faulty variant of CloseDisconnect: an exception of disconnect() is not
\* caught and leaves close() through the lock block
CloseDisconnect_Propagates(t, ok) ==
    /\ pc[t] = "closing"
    /\ disconnected' = disconnected \cup {NextToClose}
    /\ IF ok /\ ToClose # {NextToClose}
       THEN UNCHANGED <<all_connections, available_connections, user_connections,
                        lock_holder, lock_waiters, pc, outcome, user_id, connection,
                        yielded, awaiting, expect>>
       ELSE IF ok
       THEN CloseClears(t, lock_waiters)
       ELSE /\ FinishCall(t, lock_waiters, expect)
            /\ UNCHANGED <<all_connections, available_connections, user_connections>>
    /\ UNCHANGED <<conn, stats, leased, init_i, last_exit, issued>>

\* lines 267-276: the disconnect() of one connection returns (ok) or raises
\* and is logged; after the last one the tables are cleared
CloseDisconnect(t, ok) ==
    /\ pc[t] = "closing"
    /\ disconnected' = disconnected \cup {NextToClose}
    /\ IF ToClose # {NextToClose}
       THEN UNCHANGED <<all_connections, available_connections, user_connections,
                        lock_holder, lock_waiters, pc, outcome, user_id, connection,
                        yielded, awaiting, expect>>
       ELSE CloseClears(t, lock_waiters)
    /\ UNCHANGED <<conn, stats, leased, init_i, last_exit, issued>>

\* ------------------------------------------------------------ specification
Init == PoolInit /\ SessionInit(Absent)

\* what no call of the pool changes
fixed == <<pool_size, sessVars, cbVars, whVars>>

Next ==
    \/ (\E t \in Tasks, u \in Users : GetConnection(t, u)) /\ UNCHANGED fixed
    \/ (\E p \in Tasks, t \in Tasks, u \in Users : NestedGetConnection(p, t, u)) /\ UNCHANGED fixed
    \/ (\E t \in Tasks : GetConnectionResume(t)) /\ UNCHANGED fixed
    \/ (\E t \in Tasks : CreateOk(t)) /\ UNCHANGED fixed
    \/ (\E t \in Tasks : CreateFail(t)) /\ UNCHANGED fixed
    \/ (\E t \in Tasks : TempOk(t)) /\ UNCHANGED fixed
    \/ (\E t \in Tasks : TempFail(t)) /\ UNCHANGED fixed
    \/ (\E t \in Tasks, ok \in BOOLEAN : BodyDone(t, ok)) /\ UNCHANGED fixed
    \/ (\E t \in Tasks : TempDisconnected(t)) /\ UNCHANGED fixed
    \/ (\E t \in Tasks : ReleaseResume(t)) /\ UNCHANGED fixed
    \/ (\E t \in Tasks, u \in Users : Acquire(t, u)) /\ UNCHANGED fixed
    \/ (\E t \in Tasks : AcquireResume(t)) /\ UNCHANGED fixed
    \/ (\E t \in Tasks : AcquireCreateOk(t)) /\ UNCHANGED fixed
    \/ (\E t \in Tasks : AcquireCreateFail(t)) /\ UNCHANGED fixed
    \/ (\E t \in Tasks, l \in leased : Release(t, l)) /\ UNCHANGED fixed
    \/ (\E t \in Tasks : LegacyReleaseResume(t)) /\ UNCHANGED fixed
    \/ (\E t \in Tasks : Initialize(t)) /\ UNCHANGED fixed
    \/ (\E t \in Tasks : InitializeResume(t)) /\ UNCHANGED fixed
    \/ (\E t \in Tasks : InitCreateOk(t)) /\ UNCHANGED fixed
    \/ (\E t \in Tasks : InitCreateFail(t)) /\ UNCHANGED fixed

Spec == Init /\ [][Next]_vars

\* the scenario of the pool of one connection: ClientPool(pool_size=1), and
\* each caller opens one get_connection scope, as a task of its own
CloseNext ==
    \/ (\E t \in Tasks, u \in Callers : GetConnection(t, u)) /\ UNCHANGED fixed
    \/ (\E t \in Tasks : GetConnectionResume(t)) /\ UNCHANGED fixed
    \/ (\E t \in Tasks : CreateOk(t)) /\ UNCHANGED fixed
    \/ (\E t \in Tasks : TempOk(t)) /\ UNCHANGED fixed
    \/ (\E t \in Tasks, ok \in BOOLEAN : BodyDone(t, ok)) /\ UNCHANGED fixed
    \/ (\E t \in Tasks : TempDisconnected(t)) /\ UNCHANGED fixed
    \/ (\E t \in Tasks : ReleaseResume(t)) /\ UNCHANGED fixed
    \/ (\E t \in Tasks : Close(t)) /\ UNCHANGED fixed
    \/ (\E t \in Tasks : CloseResume(t)) /\ UNCHANGED fixed
    \/ (\E t \in Tasks, ok \in BOOLEAN : CloseDisconnect(t, ok)) /\ UNCHANGED fixed

CloseSpec == Init /\ [][CloseNext]_vars

SmallPoolInit == Constructed(1) /\ SessionInit(Absent)

SmallPoolNext ==
    \/ (\E t \in Tasks, u \in Callers : u \notin issued.named /\ GetConnection(t, u))
          /\ UNCHANGED fixed
    \/ (\E t \in Tasks : GetConnectionResume(t)) /\ UNCHANGED fixed
    \/ (\E t \in Tasks : CreateOk(t)) /\ UNCHANGED fixed
    \/ (\E t \in Tasks : CreateFail(t)) /\ UNCHANGED fixed
    \/ (\E t \in Tasks : TempOk(t)) /\ UNCHANGED fixed
    \/ (\E t \in Tasks : TempFail(t)) /\ UNCHANGED fixed
    \/ (\E t \in Tasks, ok \in BOOLEAN : BodyDone(t, ok)) /\ UNCHANGED fixed
    \/ (\E t \in Tasks : TempDisconnected(t)) /\ UNCHANGED fixed
    \/ (\E t \in Tasks : ReleaseResume(t)) /\ UNCHANGED fixed

SmallPoolSpec == SmallPoolInit /\ [][SmallPoolNext]_vars

\* the service starts on a Redis that holds a session of the caller, or none
StoreInit ==
    /\ PoolInit
    /\ \E stored \in {Absent, <<create_default_session(0)>>} : SessionInit(stored)

UpdateNext ==
    \/ (\E t \in Workers, u \in UpdateArgs : UpdateSession(t, u)) /\ UNCHANGED outside
    \/ (\E t \in Workers, f \in {"none", "primary", "all"} : UpdateRead(t, f)) /\ UNCHANGED outside
    \/ (\E t \in Workers : UpdateCas(t)) /\ UNCHANGED outside
    \/ (\E t \in Workers, applied \in BOOLEAN : CasError(t, applied)) /\ UNCHANGED outside
    \/ Replicate /\ UNCHANGED outside

UpdateSpec == StoreInit /\ [][UpdateNext]_vars

GetNext ==
    \/ (\E t \in Workers, f \in {"none", "primary", "secondary", "all"} : GetSession(t, f)) /\ UNCHANGED outside
    \/ (\E t \in Workers, u \in UpdateArgs : UpdateSession(t, u)) /\ UNCHANGED outside
    \/ (\E t \in Workers, f \in {"none", "primary", "all"} : UpdateRead(t, f)) /\ UNCHANGED outside
    \/ (\E t \in Workers : UpdateCas(t)) /\ UNCHANGED outside
    \/ SessionExpires /\ UNCHANGED outside
    \/ Replicate /\ UNCHANGED outside

GetSpec == StoreInit /\ [][GetNext]_vars

\* the `updates` arguments with a list in a nested dict, and one on another
\* key of the same dict
ItemArgs ==
    { [cart |-> [items |-> <<"X">>]],
      [cart |-> [items |-> <<"X", "Z">>, total_items |-> 2]],
      [cart |-> [total_amount |-> 1]] }

\* a session is stored, its cart empty or holding one item
MergeInit ==
    /\ PoolInit
    /\ \E stored \in { create_default_session(0),
                        [create_default_session(0) EXCEPT !.cart.items = <<"Y">>,
                                                          !.cart.total_items = 1] } :
           SessionInit(<<stored>>)

MergeNext ==
    \/ (\E t \in Workers, u \in ItemArgs : UpdateSession(t, u)) /\ UNCHANGED outside
    \/ (\E t \in Workers, f \in {"none", "primary", "all"} : UpdateRead(t, f)) /\ UNCHANGED outside
    \/ (\E t \in Workers : UpdateCas(t)) /\ UNCHANGED outside
    \/ (\E t \in Workers, f \in {"none", "primary", "secondary", "all"} : GetSession(t, f)) /\ UNCHANGED outside
    \/ Replicate /\ UNCHANGED outside

MergeSpec == MergeInit /\ [][MergeNext]_vars

\* the `updates` arguments of the create-update-get scenario
ScenarioArgs ==
    { [cart |-> [total_items |-> 2]],
      [conversation_context |-> [current_flow |-> "checkout"]] }

\* no session is stored; create_session is called with empty seed data
ScenarioNext ==
    \/ (\E t \in Workers, tok \in Tokens : CreateSession(t, tok, Absent)) /\ UNCHANGED outside
    \/ (\E t \in Workers : CreateRefused(t)) /\ UNCHANGED outside
    \/ (\E t \in Workers : CreateGet(t)) /\ UNCHANGED outside
    \/ (\E t \in Workers : CreateWrite(t)) /\ UNCHANGED outside
    \/ (\E t \in Workers : CreateRelease(t)) /\ UNCHANGED outside
    \/ (\E t \in Workers, u \in ScenarioArgs : UpdateSession(t, u)) /\ UNCHANGED outside
    \/ (\E t \in Workers, f \in {"none", "primary", "all"} : UpdateRead(t, f)) /\ UNCHANGED outside
    \/ (\E t \in Workers : UpdateCas(t)) /\ UNCHANGED outside
    \/ (\E t \in Workers, f \in {"none", "primary", "secondary", "all"} : GetSession(t, f)) /\ UNCHANGED outside

ScenarioSpec == Init /\ [][ScenarioNext]_vars

RetryNext ==
    \/ (\E t \in Workers : WrappedCall(t)) /\ UNCHANGED outside
    \/ (\E t \in Workers, o \in Outcomes : Invoked(t, o)) /\ UNCHANGED outside

RetrySpec == Init /\ [][RetryNext]_vars

BreakerNext ==
    \/ (\E t \in Workers : BreakerCall(t)) /\ UNCHANGED <<poolVars, whVars>>
    \/ (\E t \in Workers, ok \in BOOLEAN : BreakerInvoked(t, ok)) /\ UNCHANGED <<poolVars, whVars>>
    \/ Tick /\ UNCHANGED <<poolVars, whVars>>

BreakerSpec == Init /\ [][BreakerNext]_vars

\* the webhook starts on a key that holds the history of earlier messages
WebhookStart ==
    /\ PoolInit
    /\ ServiceInit(Absent)
    /\ \E n \in SeedLens : WebhookInit(IF n = 0 THEN Absent ELSE <<OldHistory(n)>>)

still == <<poolVars, sessVars, cbVars>>

WebhookNext ==
    \/ (\E p \in Handlers : ProcessMessage(p)) /\ UNCHANGED still
    \/ (\E p \in Handlers : WebhookGet(p)) /\ UNCHANGED still
    \/ (\E p \in Handlers : EnterScope(p)) /\ UNCHANGED still
    \/ (\E p \in Handlers : ScopeResume(p)) /\ UNCHANGED still
    \/ (\E p \in Handlers : ClientGet(p)) /\ UNCHANGED still
    \/ (\E p \in Handlers, ok \in BOOLEAN : ClientUpdate(p, ok)) /\ UNCHANGED still
    \/ (\E p \in Handlers : WebhookSet(p)) /\ UNCHANGED still
    \/ (\E p \in Handlers : SendReply(p)) /\ UNCHANGED still

WebhookSpec == WebhookStart /\ [][WebhookNext]_vars

CreateNext ==
    \/ (\E t \in Workers, tok \in Tokens, init \in InitialData : CreateSession(t, tok, init)) /\ UNCHANGED outside
    \/ (\E t \in Workers : CreateRefused(t)) /\ UNCHANGED outside
    \/ (\E t \in Workers : CreateGet(t)) /\ UNCHANGED outside
    \/ (\E t \in Workers : CreateWrite(t)) /\ UNCHANGED outside
    \/ (\E t \in Workers : CreateRelease(t)) /\ UNCHANGED outside
    \/ LockExpires /\ UNCHANGED outside

CreateSpec == StoreInit /\ [][CreateNext]_vars

\* ------------------------------------------------------------------ claims
\* a task inside a get_connection scope that was handed a pool-owned
\* connection: from the yield until the release of lines 204-209 is done
HoldsPooled(t) == pc[t] \in {"body", "rel_wait"} /\ yielded[t].id[1] = "conn"

BusyCount == Cardinality({c \in all_connections : conn[c].is_busy})

\* C1: all_connections never holds more than pool_size entries, so no more
\* than pool_size pool-owned connections are busy at once.
C1_PoolBound ==
    /\ Cardinality(all_connections) <= pool_size
    /\ BusyCount <= pool_size

\* C2: no pool-owned connection is yielded to two get_connection scopes whose
\* lifetimes overlap; in particular a caller entering get_connection again
\* before its first lease is released is not handed the same connection.
C2_NoDoubleLease ==
    \A t1 \in Tasks, t2 \in Tasks :
        (t1 # t2 /\ HoldsPooled(t1) /\ HoldsPooled(t2)) => yielded[t1].id # yielded[t2].id

\* C3: a get_connection call issued while another caller is inside its scope
\* does not wait for that scope to exit: no caller is suspended on the pool
\* lock while the holder of the lock is in the body of its scope.
C3_NoWaitBehindScope ==
    \A t \in Tasks :
        pc[t] = "gc_wait" => ~(lock_holder # NoTask /\ pc[lock_holder] = "body")

\* C4: a connection id is in available_connections if and only if the
\* connection is not busy.
C4_IdleIffNotBusy ==
    \A c \in all_connections : InSeq(c, available_connections) <=> ~conn[c].is_busy

\* the step in which get_connection, holding the lock, picks its path
Decides(t) ==
    /\ pc[t] \in {"idle", "gc_wait"}
    /\ pc'[t] \in {"body", "gc_creating", "gc_temp_connecting"}

\* the exit history the call of t was issued under
Expected(t) == IF pc[t] = "idle" THEN last_exit[user_id'[t]] ELSE expect[t]

Reuses(t, c) ==
    /\ pc'[t] = "body"
    /\ yielded'[t].id = c
    /\ yielded'[t].was_reused
    /\ stats'.connections_reused = stats.connections_reused + 1

\* C8 as stated: caller X exits a scope that used pooled connection L and
\* calls get_connection(X) again, no other caller acquiring in between; the
\* call yields L with _was_reused = True and connections_reused grows by 1.
C8_ReuseAfterExit ==
    [][\A t \in Tasks :
        (Decides(t) /\ Expected(t).id # NoConn) => Reuses(t, Expected(t).id)]_vars

\* C8 amended: the same, for a caller that had no other get_connection or
\* acquire call in progress and held no acquire() lease when it exited, with
\* no acquisition by any caller (itself included) between exit and call.
C8_ReuseAfterSoleExit ==
    [][\A t \in Tasks :
        (Decides(t) /\ Expected(t).id # NoConn /\ Expected(t).sole)
            => Reuses(t, Expected(t).id)]_vars

C8_Witness ==
    \E t \in Tasks : pc[t] = "body" /\ yielded[t].was_reused /\ yielded[t].after_exit

TempPhase(t) == pc[t] \in {"gc_temp_connecting", "temp_disconnecting"}
                     \/ (pc[t] = "body" /\ yielded[t].id[1] = "temp")

\* the pool is full and nothing in it is idle
Exhausted ==
    /\ Cardinality(all_connections) = pool_size
    /\ \A c \in all_connections : conn[c].is_busy

\* C9: when all_connections holds pool_size connections, none idle, a
\* get_connection of a new caller takes the temporary path:
\* pool_exhausted_count grows by exactly 1, the client yielded has a "temp_"
\* id, it is in none of all_connections, available_connections and
\* user_connections, and total_connections stays what it was before, during
\* and after the use of the temporary client.
C9_TemporaryOutsidePool ==
    [][\A t \in Tasks :
        /\ (Decides(t) /\ Exhausted /\ user_connections[user_id'[t]] = NoConn)
              => /\ pc'[t] = "gc_temp_connecting"
                 /\ stats'.pool_exhausted_count = stats.pool_exhausted_count + 1
                 /\ all_connections' = all_connections
        /\ (pc[t] = "gc_temp_connecting" /\ pc'[t] = "body")
              => /\ yielded'[t].id[1] = "temp"
                 /\ yielded'[t].id \notin all_connections'
                 /\ ~InSeq(yielded'[t].id, available_connections')
                 /\ \A u \in Callers : user_connections'[u] # yielded'[t].id
        /\ TempPhase(t)
              => /\ all_connections' = all_connections
                 /\ user_connections' = user_connections
                 /\ \A c \in all_connections' : c[1] = "conn"
                 /\ \A i \in 1..Len(available_connections') : available_connections'[i][1] = "conn"
       ]_vars

\* C9 witness: a new caller is using a temporary client, the pool being full and busy
C9_Witness ==
    \E t \in Tasks :
        /\ pc[t] = "body" /\ yielded[t].id[1] = "temp"
        /\ Exhausted
        /\ user_connections[user_id[t]] = NoConn

Occurrences(c, s) == Cardinality({i \in 1..Len(s) : s[i] = c})

\* the step in which the call of t returns to its caller: the tasks are what
\* they were, without t
Returns(t) ==
    /\ pc[t] # "idle"
    /\ pc' = Moved(pc, t, "idle")
    /\ user_id' = Moved(user_id, t, NoUser)
    /\ connection' = Moved(connection, t, NoConn)
    /\ yielded' = Moved(yielded, t, NoYield)

\* C10: when a get_connection scope ends, by a normal end of its body or by
\* an exception, a pool-owned connection is left with is_busy = False,
\* current_user = None and exactly one entry in available_connections, and
\* a temporary client has had disconnect() called on it.
C10_ReleasedOnEveryExit ==
    [][\A t \in Tasks :
        /\ (HoldsPooled(t) /\ Returns(t))
              => /\ ~conn'[yielded[t].id].is_busy
                 /\ conn'[yielded[t].id].current_user = NoUser
                 /\ Occurrences(yielded[t].id, available_connections') = 1
        /\ (yielded[t].id[1] = "temp"
               /\ (Returns(t) \/ (pc[t] = "temp_disconnecting" /\ pc'[t] = "rel_wait")))
              => yielded[t].id \in disconnected'
       ]_vars

\* C10 witness: a scope whose body raised has just ended and its pool-owned
\* connection is idle again; another scope, on a temporary client, has been
\* disconnected
C10_Witness ==
    /\ \E u \in Users : /\ last_exit[u].id # NoConn
                        /\ last_exit[u].raised
                        /\ ~conn[last_exit[u].id].is_busy
                        /\ InSeq(last_exit[u].id, available_connections)
    /\ disconnected # {}

\* C5: every write committed by update_session carries the version stored at
\* commit time plus 1, and is committed only if the stored version still is
\* the version read at the start of the attempt; for one stored session no
\* two committed writes carry the same version number.
C5_VersionedCommit ==
    \A i \in 1..Len(commit_log) :
        /\ commit_log[i].version = commit_log[i].stored + 1
        /\ commit_log[i].stored = commit_log[i].read
        /\ \A j \in 1..Len(commit_log) :
               i # j => commit_log[i].version # commit_log[j].version

\* a call of update_session has returned its session
Returned(t) == spc[t] = "idle" /\ ret[t].op = "update" /\ ret[t].kind = "ok"

\* C5 witness: two updates both read version 1; one committed version 2, the
\* other lost the compare-and-swap, retried and committed version 3
C5_Witness ==
    /\ faults = 0
    /\ Len(commit_log) = 2
    /\ \E p \in Workers, q \in Workers :
          /\ Returned(p) /\ ret[p].attempts = 1 /\ ret[p].session[1].version = 2
          /\ Returned(q) /\ ret[q].attempts = 2 /\ ret[q].session[1].version = 3

LeafKeys == {"total_items", "total_amount", "current_flow"}

\* the leaf keys an `updates` argument writes
Leaves(u) == {kl \in (DOMAIN u) \X LeafKeys : kl[2] \in DOMAIN u[kl[1]]}

\* the session holds the changes of u: merging u into it changes nothing
Has(sess, u) == deep_merge(sess, u) = sess

\* C6: when two update_session calls for the same caller, on different keys,
\* have both returned successfully, the stored session holds the changes of
\* both.
C6_BothChangesKept ==
    \A p \in Workers, q \in Workers :
        (/\ p # q
         /\ Returned(p) /\ Returned(q)
         /\ Leaves(ret[p].updates[1]) \cap Leaves(ret[q].updates[1]) = {})
            => /\ redis_session # Absent
               /\ Has(redis_session[1], ret[p].updates[1])
               /\ Has(redis_session[1], ret[q].updates[1])

\* C6 witness: the two calls ran concurrently on two keys of the same nested
\* dict; the one that lost the compare-and-swap read again and merged again
C6_Witness ==
    /\ faults = 0
    /\ \E p \in Workers, q \in Workers :
          /\ Returned(p) /\ ret[p].attempts = 1 /\ ret[p].updates = <<[cart |-> [total_items |-> 1]]>>
          /\ Returned(q) /\ ret[q].attempts = 2 /\ ret[q].updates = <<[cart |-> [total_amount |-> 1]]>>
          /\ redis_session[1].cart = [items |-> <<>>, total_items |-> 1, total_amount |-> 1]

\* a call of create_session has ended
Created1(t) == spc[t] = "idle" /\ ret[t].op = "create"

\* C7: when create_session is called twice concurrently for a caller that has
\* no session, exactly one session is persisted and both calls return it.
C7_ConcurrentCreateOneSession ==
    \A p \in Workers, q \in Workers :
        (/\ p # q
         /\ rival[p] = q /\ rival[q] = p
         /\ Created1(p) /\ Created1(q))
            => /\ persisted = 1
               /\ ret[p].kind = "ok" /\ ret[q].kind = "ok"
               /\ ret[p].session = ret[q].session
               /\ ret[p].session = redis_session

\* -------------------------------------------------------------- C11
\* the connection the first caller of an empty pool is given
L1 == <<"conn", "u1", 1>>

\* caller u has a pool-owned connection checked out and not released
Leases(u) == \E o \in Tasks : HoldsPooled(o) /\ user_id[o] = u

InProgress(u) == \E o \in Tasks : pc[o] # "idle" /\ user_id[o] = u

Entering == {t \in Tasks : pc[t] = "gc_wait"}

\* C12: total_requests equals the number of get_connection calls made,
\* whichever path served each call: every call made is counted once it has
\* entered the pool, so the two are equal whenever no call is still waiting
\* to enter.
C12_TotalRequestsCountsCalls ==
    stats.total_requests + Cardinality(Entering) = issued.gets

\* C12 witness: several calls have been made and have all returned, served
\* by creation, by affinity reuse and by a temporary client
C12_Witness ==
    /\ \A t \in Tasks : pc[t] = "idle"
    /\ issued.gets >= 3
    /\ stats.total_requests = issued.gets
    /\ stats.connections_created >= 1
    /\ stats.connections_reused >= 1
    /\ stats.pool_exhausted_count >= 1

\* -------------------------------------------------------------- C13
\* what get_stats and the tables show of the pool: members, idle queue,
\* affinity and the busy flag of every member
PoolTables ==
    <<all_connections, available_connections, user_connections,
      [c \in all_connections |-> conn[c].is_busy]>>

Connecting == {"gc_creating", "gc_temp_connecting"}

\* a step of a get_connection call of task t whose connect fails: the entry
\* up to the await of the connect (lines 115-159 or 115-188), the exception
\* leaving the lock block, and the finally of lines 202-209
EntersConnect(t) == pc[t] \in {"idle", "gc_wait"} /\ pc'[t] \in Connecting

ConnectRaises(t) ==
    /\ pc[t] \in Connecting
    /\ Returns(t) \/ (pc'[t] = "rel_wait" /\ outcome'[t] = "connect_error")

FailedFinally(t) == pc[t] = "rel_wait" /\ outcome[t] = "connect_error" /\ Returns(t)

\* C13: a get_connection call whose connect fails (creating a pooled
\* connection or a temporary one) raises after that one attempt and leaves
\* all_connections, available_connections, user_connections and every busy
\* flag as they were: no step of the call changes them.
C13_FailedConnectLeavesPool ==
    [][\A t \in Tasks :
          EntersConnect(t) \/ ConnectRaises(t) \/ FailedFinally(t)
              => UNCHANGED PoolTables]_vars

\* -------------------------------------------------------------- C14
\* the script of t's attempt runs and answers 0: the stored version is not
\* the one this attempt read (lines 552-570)
Mismatch(t) ==
    /\ spc[t] = "u_cas"
    /\ spc'[t] # "u_cas"
    /\ faults' = faults
    /\ CasScript(redis_session, session_data[t][1], PyStr(current_version[t])).result = 0

\* t's call returns its session (line 563)
ReturnsSession(t) == spc[t] = "u_cas" /\ spc'[t] = "idle" /\ ret'[t].kind = "ok"

\* progress of one call: with_retry round, loop index, position in the body
Measure(t) ==
    (retry[t] * max_retries + attempt[t]) * 2 + (IF spc[t] = "u_cas" THEN 1 ELSE 0)

\* C14: an attempt of update_session that finds a version mismatch writes
\* nothing and is followed by a new read-merge-write attempt while fewer than
\* 3 have been made; the 3rd mismatch ends the call with ValueError
\* ("Optimistic lock failed after retries") after exactly 3 attempts. Every
\* step of a call returns or advances its bounded progress measure, so the
\* call terminates; a session is returned only by the step that committed it.
C14_BoundedConflictRetries ==
    /\ [](\A t \in Workers : attempt[t] < max_retries /\ retry[t] <= policy_max_retries)
    /\ [][\A t \in Workers :
            /\ Mismatch(t) =>
                  /\ redis_session' = redis_session
                  /\ IF attempt[t] < max_retries - 1
                     THEN spc'[t] = "u_read" /\ attempt'[t] = attempt[t] + 1 /\ ret'[t] = ret[t]
                     ELSE /\ spc'[t] = "idle"
                          /\ ret'[t].kind = "optimistic_lock_failed"
                          /\ ret'[t].attempts = max_retries
                          /\ ret'[t].session = Absent
            /\ (spc[t] # "idle" /\ <<spc[t], attempt[t], retry[t]>> # <<spc'[t], attempt'[t], retry'[t]>>)
                  => spc'[t] = "idle" \/ Measure(t)' > Measure(t)
            /\ ReturnsSession(t) =>
                  /\ redis_session' = ret'[t].session
                  /\ Len(commit_log') = Len(commit_log) + 1
                  /\ commit_log'[Len(commit_log')].version = ret'[t].session[1].version]_vars

\* C14 witness: a call has raised the optimistic-lock error after 3 attempts,
\* while two other updates committed
C14_Witness ==
    \E t \in Workers :
        /\ spc[t] = "idle"
        /\ ret[t].op = "update"
        /\ ret[t].kind = "optimistic_lock_failed"
        /\ ret[t].attempts = max_retries
        /\ Len(commit_log) >= 2

\* -------------------------------------------------------------- C15
\* the unlock script of t's distributed_lock scope runs (lines 361-371), after
\* the body or after the ValueError of line 357
Unlocks(t) == spc[t] \in {"c_refused", "c_release", "c_invalid"} /\ spc'[t] = "idle"

\* C15: the exit of a distributed_lock scope deletes the lock key only if the
\* key still holds what this caller's own SET wrote: not the lock of a caller
\* that re-acquired it after expiry, and not the holder's lock when this
\* caller's acquisition failed.
C15_UnlockOnlyOwnLock ==
    [][\A t \in Workers :
          (Unlocks(t) /\ redis_lock # Absent /\ redis_lock' = Absent) => lock_writer = t]_vars

\* -------------------------------------------------------------- C16
\* t enters distributed_lock while the lock key is held (line 355)
FindsLockHeld(t) == spc[t] = "idle" /\ spc'[t] # "idle" /\ redis_lock # Absent

\* what the scoped body of create_session reads and writes (lines 451-472)
BodyEffects == <<redis_session, active_sessions, persisted, built>>

\* C16: distributed_lock on a held lock key raises ValueError ("Could not
\* acquire lock") at once: the SET is tried once and not again, the caller
\* does not wait for the holder, and the scoped body is not executed.
C16_HeldLockRaisesAtOnce ==
    [][\A t \in Workers :
          /\ FindsLockHeld(t) =>
                spc'[t] = "c_refused" /\ redis_lock' = redis_lock /\ UNCHANGED BodyEffects
          /\ (spc[t] = "c_refused" /\ spc'[t] # "c_refused") =>
                /\ spc'[t] = "idle"
                /\ ret'[t] = [op |-> "create", kind |-> "lock_error", session |-> Absent,
                              updates |-> updates[t], attempts |-> 1, failed |-> "none"]
                /\ UNCHANGED BodyEffects]_vars

\* C16 witness: a caller was refused and has its ValueError while the holder
\* is still inside its scope
C16_Witness ==
    \E t \in Workers, h \in Workers :
        /\ spc[t] = "idle" /\ ret[t].kind = "lock_error"
        /\ spc[h] \in {"c_get", "c_write", "c_release"}
        /\ redis_lock # Absent /\ lock_writer = h

\* -------------------------------------------------------------- C17
\* the GET of line 451 answers t with a stored session
FindsStored(t) == spc[t] = "c_get" /\ spc'[t] # "c_get" /\ redis_session # Absent

\* t leaves the lock scope and create_session returns
CreateReturns(t) == spc[t] = "c_release" /\ spc'[t] = "idle"

\* what create_session writes: the session key and the set of active sessions
Written == <<redis_session, active_sessions, persisted>>

\* C17: create_session for a caller whose session exists returns the stored
\* session as it is and writes nothing, whatever the seed data: the record
\* found is kept for the return without a merge, and neither the step that
\* finds it nor the return changes the stored record or its version.
C17_ExistingSessionReturned ==
    [][\A t \in Workers :
          /\ FindsStored(t) =>
                /\ spc'[t] = "c_release"
                /\ session_data'[t] = redis_session
                /\ UNCHANGED <<Written, built>>
          /\ CreateReturns(t) =>
                /\ ret'[t].kind = "ok"
                /\ ret'[t].session = session_data[t]
                /\ UNCHANGED <<Written, built>>]_vars

\* C17 witness: a call with seed data has returned the session that was
\* stored before it, and nothing was built or written
C17_Witness ==
    \E t \in Workers :
        /\ spc[t] = "idle" /\ ret[t].op = "create" /\ ret[t].kind = "ok"
        /\ ret[t].updates # Absent
        /\ ret[t].session = redis_session
        /\ redis_session = <<create_default_session(0)>>
        /\ built = 0 /\ persisted = 0

\* -------------------------------------------------------------- C18
\* the session update_session builds from the record v (lines 521-526)
Merged(v, u) == [deep_merge(v, u) EXCEPT !.version = v.version + 1]

\* t's attempt reads a record (no store fails) and every record it can read
\* gives a merged session that the validation of line 529 rejects
ReadsInvalid(t) ==
    /\ spc[t] = "u_read"
    /\ <<spc'[t], attempt'[t]>> # <<spc[t], attempt[t]>>
    /\ faults' = faults
    /\ redis_session # Absent
    /\ ~validate_session_data(Merged(redis_session[1], updates[t][1]))

\* t's create_session has built a session that the validation of line 465 rejects
BuildsInvalid(t) == spc[t] = "c_get" /\ spc'[t] = "c_invalid"

\* C18: when the merged session fails validation, create_session and
\* update_session fail with the error at once, without another attempt, and
\* nothing is written: the stored session is what it was.
C18_InvalidFailsAtOnce ==
    [][\A t \in Workers :
          /\ ReadsInvalid(t) =>
                /\ spc'[t] = "idle"
                /\ ret'[t].kind = "invalid"
                /\ redis_session' = redis_session
          /\ BuildsInvalid(t) => UNCHANGED Written
          /\ (spc[t] = "c_invalid" /\ spc'[t] # "c_invalid") =>
                /\ spc'[t] = "idle"
                /\ ret'[t].kind = "invalid"
                /\ UNCHANGED Written]_vars

\* -------------------------------------------------------------- C19
\* self.clients in the order of the configuration, and what each node stores
StoreOrder == <<"primary", "secondary">>

Content(n) == IF n = "primary" THEN redis_session ELSE replica_session

Down(f) ==
    IF f = "none" THEN {} ELSE IF f = "all" THEN {"primary", "secondary"} ELSE {f}

\* the stores that answer the GET with a record, by position
Answering(f) ==
    {i \in 1..Len(StoreOrder) : StoreOrder[i] \notin Down(f) /\ Content(StoreOrder[i]) # Absent}

FirstRecord(f) ==
    IF Answering(f) = {} THEN Absent
    ELSE Content(StoreOrder[CHOOSE i \in Answering(f) : \A j \in Answering(f) : i <= j])

\* a step that is a whole get_session call of t
Gets(t) == SessionStarts(t) /\ spc' = spc /\ session_calls' = session_calls + 1

\* C19: get_session asks the stores in order, the primary first, goes on to
\* the next store when one fails (or has no record), and returns the record
\* of the first store that answers with one; when none does it returns None
\* and does not raise. It writes nothing.
C19_FirstStoreWithRecord ==
    [][\A t \in Workers :
          Gets(t) =>
             /\ ret'[t].op = "get"
             /\ ret'[t].kind = "ok"
             /\ ret'[t].session = FirstRecord(ret'[t].failed)
             /\ UNCHANGED <<redis_session, replica_session>>]_vars

\* C19 witness: the primary failed and the call returned the record of the
\* secondary, which differs from the record of the primary
C19_Witness ==
    \E t \in Workers :
        /\ ret[t].op = "get" /\ ret[t].failed = "primary"
        /\ ret[t].session # Absent
        /\ ret[t].session = replica_session
        /\ redis_session # Absent /\ redis_session # replica_session

\* -------------------------------------------------------------- C20
\* the nested dict `cart` after the partial update u of the record r: keys
\* that u.cart mentions take its values, whole; the others keep theirs
CartAfter(r, u) ==
    [k \in DOMAIN r.cart \cup DOMAIN u.cart |->
        IF k \in DOMAIN u.cart THEN u.cart[k] ELSE r.cart[k]]

\* C20: an update_session with a nested partial update of cart replaces the
\* mentioned non-map values (scalars and the items list) and keeps every cart
\* key it does not mention, as well as the other parts of the session; the
\* call returns that session and a get_session that follows, no store
\* failing, returns it.
C20_NestedPartialUpdate ==
    [][\A t \in Workers :
          /\ ReturnsSession(t) =>
                /\ redis_session'[1].cart = CartAfter(redis_session[1], updates[t][1])
                /\ redis_session'[1].conversation_context = redis_session[1].conversation_context
                /\ redis_session'[1].user_id = redis_session[1].user_id
                /\ redis_session'[1].created_at = redis_session[1].created_at
                /\ ret'[t].session = redis_session'
          /\ (Gets(t) /\ ret'[t].failed = "none" /\ redis_session # Absent) =>
                ret'[t].session = redis_session]_vars

\* C20 witness: the cart held item Y and a total; update_session with
\* {"cart": {"items": [X]}} has returned and a get_session after it returns
\* items = [X] with the other cart fields as they were
C20_Witness ==
    \E t \in Workers, g \in Workers :
        /\ Returned(t) /\ ret[t].updates = <<[cart |-> [items |-> <<"X">>]]>>
        /\ ret[g].op = "get" /\ ret[g].failed = "none"
        /\ ret[g].session # Absent
        /\ ret[g].session[1].cart = [items |-> <<"X">>, total_items |-> 1, total_amount |-> 1]
        /\ Len(commit_log) = 2

\* -------------------------------------------------------------- C21
\* t's update_session with {"cart": {"total_items": 2}} has returned, and it
\* is the only update committed on the only session created
UpdatedOnce(t) ==
    /\ Returned(t)
    /\ ret[t].updates = <<[cart |-> [total_items |-> 2]]>>
    /\ persisted = 1
    /\ Len(commit_log) = 1

\* C21: starting with no session, create_session with empty seed data, then
\* update_session with {"cart": {"total_items": 2}}, then get_session returns
\* a session with version 2 and cart.total_items 2 whose conversation history
\* is still the empty list.
C21_CreateUpdateGet ==
    [][\A t \in Workers :
          (UpdatedOnce(t) /\ Gets(t) /\ ret'[t].failed = "none") =>
              /\ ret'[t].session # Absent
              /\ ret'[t].session[1].version = 2
              /\ ret'[t].session[1].cart.total_items = 2
              /\ ret'[t].session[1].conversation_context.history = <<>>]_vars

\* C21 witness: the three calls were made one after the other and the
\* get_session has returned
C21_Witness ==
    \E t \in Workers :
        /\ session_calls = 3 /\ faults = 0 /\ persisted = 1 /\ Len(commit_log) = 1
        /\ \A o \in Workers : spc[o] = "idle"
        /\ ret[t].op = "get" /\ ret[t].failed = "none"
        /\ ret[t].session # Absent
        /\ ret[t].session[1].version = 2
        /\ ret[t].session[1].cart.total_items = 2
        /\ ret[t].session[1].conversation_context.history = <<>>

\* -------------------------------------------------------------- C22
\* a step that ends a close() call of task t
CloseEnds(t) == pc[t] \in {"closing", "close_wait"} /\ Returns(t)

\* C22: close() calls disconnect on every connection of all_connections, also
\* when some of the disconnects raise, and does not pass the failure on; when
\* it returns, all_connections, available_connections and user_connections
\* are empty.
C22_CloseClearsPool ==
    [][\A t \in Tasks :
          CloseEnds(t) =>
             /\ all_connections \subseteq disconnected'
             /\ all_connections' = {}
             /\ available_connections' = <<>>
             /\ \A u \in Callers : user_connections'[u] = NoConn]_vars

\* C22 witness: the pool held two connections and an affinity; a close() has
\* disconnected both and the tables are empty
C22_Witness ==
    /\ \A t \in Tasks : pc[t] = "idle"
    /\ Cardinality({c \in disconnected : c[1] = "conn"}) = 2
    /\ all_connections = {}
    /\ available_connections = <<>>
    /\ \A u \in Callers : user_connections[u] = NoConn

\* -------------------------------------------------------------- C23
\* an invocation of t's wrapped function ends
Invocation(t) == spc[t] = "w_call" /\ ret'[t].attempts = ret[t].attempts + 1

\* C23: a function wrapped by with_retry(policy) is invoked at most
\* policy.max_retries + 1 times; it is invoked again only after a
\* ConnectionError or TimeoutError; its first result is returned with no
\* further invocation; the last connectivity error is raised once the
\* attempts are used up; any other exception is raised by the invocation
\* that met it.
C23_BoundedRetry ==
    /\ [](\A t \in Workers :
            ret[t].op = "wrapped" => ret[t].attempts <= policy_max_retries + 1)
    /\ [][\A t \in Workers :
            Invocation(t) =>
               /\ spc'[t] = "w_call" =>
                     ret'[t].kind \in Connectivity /\ ret'[t].attempts <= policy_max_retries
               /\ spc'[t] = "idle" =>
                     \/ ret'[t].kind \in {"ok", "other_error"}
                     \/ /\ ret'[t].kind \in Connectivity
                        /\ ret'[t].attempts = policy_max_retries + 1
               /\ ret'[t].kind \in {"ok", "other_error"} => spc'[t] = "idle"]_vars

\* C23 witness: one call returned at its third invocation after two
\* connectivity errors, another raised the last connectivity error after
\* max_retries + 1 invocations
C23_Witness ==
    \E p \in Workers, q \in Workers :
        /\ spc[p] = "idle" /\ ret[p].op = "wrapped" /\ ret[p].kind = "ok" /\ ret[p].attempts = 3
        /\ spc[q] = "idle" /\ ret[q].op = "wrapped" /\ ret[q].kind = "timeout_error"
        /\ ret[q].attempts = policy_max_retries + 1

\* -------------------------------------------------------------- C24
\* the breaker refuses: OPEN and the recovery timeout has not elapsed
Refusing == circuit_breaker.state = "open" /\ ~should_attempt_reset(circuit_breaker, now)

\* a failing call of t ends; failure_count counts the failing calls since the
\* last success
Fails(t) == spc[t] = "cb_invoking" /\ spc'[t] = "idle" /\ ret'[t].kind = "failed"

\* C24: the failure that makes failure_threshold consecutive failing calls
\* leaves the breaker OPEN with failure_count = failure_threshold (the
\* breaker is never CLOSED with that many failures counted); while the
\* breaker is OPEN and recovery_timeout has not elapsed since the last
\* failure, a call raises ConnectionError and the function is not invoked.
C24_OpensAtThreshold ==
    /\ [](circuit_breaker.state = "closed" => circuit_breaker.failure_count < failure_threshold)
    /\ [][\A t \in Workers :
            /\ Fails(t) =>
                  /\ circuit_breaker'.failure_count = circuit_breaker.failure_count + 1
                  /\ circuit_breaker'.last_failure_time = now
                  /\ circuit_breaker'.failure_count = failure_threshold =>
                        circuit_breaker'.state = "open"
            /\ Refusing =>
                  /\ spc'[t] = "cb_invoking" => spc[t] = "cb_invoking"
                  /\ (spc[t] = "idle" /\ ret'[t] # ret[t]) =>
                        /\ ret'[t].kind = "circuit_open"
                        /\ circuit_breaker' = circuit_breaker]_vars

\* C24 witness: three failing calls in a row have opened the breaker and a
\* call made before the timeout elapsed was refused
C24_Witness ==
    /\ circuit_breaker.state = "open"
    /\ circuit_breaker.failure_count = failure_threshold
    /\ now - circuit_breaker.last_failure_time <= recovery_timeout
    /\ \E t \in Workers : spc[t] = "idle" /\ ret[t].kind = "circuit_open"

\* -------------------------------------------------------------- C25
\* a call is made by t: it is refused or its function is invoked
Calls(t) == spc[t] = "idle" /\ <<spc'[t], ret'[t]>> # <<spc[t], ret[t]>>

Succeeds(t) == spc[t] = "cb_invoking" /\ spc'[t] = "idle" /\ ret'[t].kind = "ok"

\* C25: when the breaker is OPEN and more than recovery_timeout has elapsed
\* since the last failure, the next call moves it to HALF_OPEN and invokes
\* the function; after a call that succeeds, that one included, the breaker
\* is CLOSED with failure_count = 0.
C25_HalfOpenThenClosed ==
    [][\A t \in Workers :
          /\ (Calls(t) /\ circuit_breaker.state = "open"
                 /\ now - circuit_breaker.last_failure_time > recovery_timeout) =>
                /\ circuit_breaker'.state = "half_open"
                /\ spc'[t] = "cb_invoking"
          /\ Succeeds(t) =>
                /\ circuit_breaker'.state = "closed"
                /\ circuit_breaker'.failure_count = 0]_vars

\* C25 witness: the breaker had opened, the timeout elapsed, and the call
\* made then succeeded and closed it
C25_Witness ==
    /\ circuit_breaker.state = "closed"
    /\ circuit_breaker.failure_count = 0
    /\ circuit_breaker.last_failure_time # NoTime
    /\ now - circuit_breaker.last_failure_time > recovery_timeout
    /\ \A t \in Workers : spc[t] = "idle"
    /\ \E t \in Workers : ret[t].op = "breaker" /\ ret[t].kind = "ok"

\* -------------------------------------------------------------- C26
\* C26: while a get_connection(X) scope runs on a pool-owned client, the
\* user_id of that client is X, whoever acquired the connection before.
C26_ClientServesCaller ==
    \A t \in Tasks :
        (pc[t] = "body" /\ yielded[t].id[1] = "conn")
            => conn[yielded[t].id].client_user = user_id[t]

\* -------------------------------------------------------------- C27
\* the step in which the get_connection scope of t ends: by the finally of
\* lines 202-209, run at once or after the wait for the lock of line 205
ScopeExits(t) ==
    /\ pc[t] \in {"body", "temp_disconnecting", "rel_wait", "gc_creating", "gc_temp_connecting"}
    /\ Returns(t)

\* connection c is checked out by a holder other than the scope of t
HeldByOther(t, c) ==
    \/ \E u \in Callers : <<u, c>> \in leased
    \/ \E t2 \in Tasks \ {t} : HoldsPooled(t2) /\ yielded[t2].id = c

\* C27: the exit of a get_connection scope clears the busy flag of, and
\* re-queues, only the connection the scope itself was yielded: a connection
\* checked out by another holder keeps its busy flag and is not appended to
\* available_connections.
C27_ExitReleasesOwnOnly ==
    [][\A t \in Tasks : ScopeExits(t) =>
          \A c \in all_connections :
              (c # yielded[t].id /\ HeldByOther(t, c)) =>
                  /\ conn[c].is_busy => conn'[c].is_busy
                  /\ Occurrences(c, available_connections')
                         <= Occurrences(c, available_connections)]_vars

\* -------------------------------------------------------------- C28
\* a client returned by acquire() on which release() has not been called yet
Unreleased(l) ==
    /\ l \in leased
    /\ \A o \in Tasks : ~(pc[o] = "lrel_wait" /\ user_id[o] = l[1] /\ connection[o] = l[2])

\* C28: between the return of acquire() and the call of release() on the
\* connection, no other acquire() returns it and no get_connection scope is
\* yielded it, also when the acquire() created the connection.
C28_LeaseExclusive ==
    \A l \in leased : Unreleased(l) =>
        /\ \A l2 \in leased : l2[2] = l[2] => l2 = l
        /\ \A t \in Tasks : pc[t] = "body" => yielded[t].id # l[2]

\* -------------------------------------------------------------- C29
\* t is suspended inside the body of `async with self.distributed_lock(...)`
\* (lines 450-477): at the GET of line 452 or at the pipeline of line 472
InBody(t) == spc[t] \in {"c_get", "c_write"}

\* C29: whatever the interleaving of acquisitions, expiries of the lock key
\* and releases, at most one caller at a time is inside the body of
\* distributed_lock for the one lock name.
C29_OneInBody ==
    \A t1 \in Workers, t2 \in Workers : (InBody(t1) /\ InBody(t2)) => t1 = t2

\* -------------------------------------------------------------- C30
\* both turns of message m are in the stored conversation history
Kept(m) ==
    /\ kv_session # Absent
    /\ \E i \in 1..Len(kv_session[1]) : kv_session[1][i] = Turn("user", m)
    /\ \E i \in 1..Len(kv_session[1]) : kv_session[1][i] = Turn("assistant", m)

\* C30: once two messages of one phone number, processed concurrently, have
\* both been answered, the stored conversation history holds the user turn
\* and the assistant turn of each of them.
C30_BothMessagesKept ==
    (answered = 1..MaxMessages) => \A m \in answered : Kept(m)

====
